---- MODULE Spec2Model ----
(***************************************************************************)
(* Model of emg_receiver/listener.py: the packet codec (clamp01, to_float, *)
(* to_bool, parse_packet), the atomic publisher (atomic_write_json) and    *)
(* the ingestion loop of main(), together with the files they write.       *)
(*                                                                         *)
(* Floats are modelled as records [k, neg, d, e]: k is "fin", "nan", "inf" *)
(* or "ninf"; a finite float is the decimal with the digits d, the sign    *)
(* neg and the exponent e.  Strings that are parsed character by character *)
(* are sequences of characters, one string per code point.                 *)
(***************************************************************************)
EXTENDS Integers, Sequences, FiniteSets, TLC

\* ------------------------------------------------------------------------
\* Bounds of the model
\* ------------------------------------------------------------------------

\* Packets delivered by the socket over all runs (also the largest recv_ts).
MaxPackets == 2
\* Process runs against the same output directory.
MaxRuns == 2
\* I/O failures the storage and the socket layer raise over all runs.
MaxFaults == 1

\* ------------------------------------------------------------------------
\* Floats
\* ------------------------------------------------------------------------
\* A float is a record [k, neg, d, e].  k is "fin", "nan", "inf" or "ninf".
\* A finite float is the decimal (-1)^neg * d * 10^e: d is the sequence of
\* its significant digits (numbers 0..9, no zero at either end, empty for
\* zero) and e the power of ten of the last digit.  0.0 and -0.0 differ in
\* neg only.  The record of a double is the shortest decimal that rounds to
\* it, the one repr() writes: Rounded takes a decimal to the record of the
\* double nearest to it, so two decimals that round to the same double are
\* one record.

\* F(v).  The bound variable makes TLC evaluate v once, however often F
\* uses it; a LET would evaluate it at every use where TLC evaluates ENABLED.
With(v, F(_)) == CHOOSE r \in {F(x) : x \in {v}} : TRUE

FloatRec(k, neg, d, e) == [k |-> k, neg |-> neg, d |-> d, e |-> e]
NaN == FloatRec("nan", FALSE, << >>, 0)
PosInf == FloatRec("inf", FALSE, << >>, 0)
NegInf == FloatRec("ninf", TRUE, << >>, 0)

\* The float with the digits ds (any zeros at the ends) times 10^e.
Dec(neg, ds, e) ==
    LET nz == {i \in 1..Len(ds) : ds[i] # 0}
    IN  IF nz = {} THEN FloatRec("fin", neg, << >>, 0)
        ELSE LET lo == CHOOSE i \in nz : \A j \in nz : i <= j
                 hi == CHOOSE i \in nz : \A j \in nz : j <= i
             IN  FloatRec("fin", neg, SubSeq(ds, lo, hi), e + Len(ds) - hi)

\* The decimal digits of a natural number.
RECURSIVE IntDigits(_)
IntDigits(n) == IF n < 10 THEN << n >> ELSE Append(IntDigits(n \div 10), n % 10)

\* float(n) for an int n.
IntFloat(n) == IF n < 0 THEN Dec(TRUE, IntDigits(0 - n), 0) ELSE Dec(FALSE, IntDigits(n), 0)

\* The float that is n hundredths: Fin(42) is 0.42.
Fin(n) == IF n < 0 THEN Dec(TRUE, IntDigits(0 - n), -2) ELSE Dec(FALSE, IntDigits(n), -2)

\* The literals 0.0 and 1.0 of clamp01.
Zero == Fin(0)
One == Fin(100)
NegZero == FloatRec("fin", TRUE, << >>, 0)

IsZero(x) == x.k = "fin" /\ x.d = << >>

\* |a| < |b| for finite floats: by the position of the first digit, then
\* digit by digit.
MagLt(a, b) ==
    IF b.d = << >> THEN FALSE
    ELSE IF a.d = << >> THEN TRUE
    ELSE IF Len(a.d) + a.e # Len(b.d) + b.e THEN Len(a.d) + a.e < Len(b.d) + b.e
    ELSE LET A(i) == IF i <= Len(a.d) THEN a.d[i] ELSE 0
             B(i) == IF i <= Len(b.d) THEN b.d[i] ELSE 0
             n == IF Len(a.d) < Len(b.d) THEN Len(b.d) ELSE Len(a.d)
             diff == {i \in 1..n : A(i) # B(i)}
         IN  IF diff = {} THEN FALSE
             ELSE LET i == CHOOSE i \in diff : \A j \in diff : i <= j
                  IN  A(i) < B(i)

\* IEEE-754 "<" as Python evaluates it: every comparison with NaN is false,
\* and -0.0 is not less than 0.0.
FloatLt(a, b) ==
    IF a.k = "nan" \/ b.k = "nan" THEN FALSE
    ELSE IF a.k = "ninf" THEN b.k # "ninf"
    ELSE IF a.k = "inf" THEN FALSE
    ELSE IF b.k = "inf" THEN TRUE
    ELSE IF b.k = "ninf" THEN FALSE
    ELSE IF a.neg /\ ~IsZero(a)
         THEN IF b.neg /\ ~IsZero(b) THEN MagLt(b, a) ELSE TRUE
         ELSE IF b.neg /\ ~IsZero(b) THEN FALSE ELSE MagLt(a, b)

\* Python's min(a, b): b if b < a, else a.   max(a, b): b if b > a, else a.
PyMin(a, b) == IF FloatLt(b, a) THEN b ELSE a
PyMax(a, b) == IF FloatLt(a, b) THEN b ELSE a

\* A clamp that forgets the upper limit.
clamp01_nomin(x) == PyMax(Zero, x)

\* clamp01: max(0.0, min(1.0, x))
clamp01(x) == With(x, LAMBDA v : PyMax(Zero, PyMin(One, v)))

InUnit(x) == x.k = "fin" /\ ~FloatLt(x, Zero) /\ ~FloatLt(One, x)

\* 2^1024 - 2^970, half way between the largest double and 2^1024: a decimal
\* of this magnitude or more is rounded to an infinity.
HalfToInf ==
    Dec(FALSE,
        << 1, 7, 9, 7, 6, 9, 3, 1, 3, 4, 8, 6, 2, 3, 1, 5, 8, 0, 7, 9, 3, 7, 2,
           8, 9, 7, 1, 4, 0, 5, 3, 0, 3, 4, 1, 5, 0, 7, 9, 9, 3, 4, 1, 3, 2, 7,
           1, 0, 0, 3, 7, 8, 2, 6, 9, 3, 6, 1, 7, 3, 7, 7, 8, 9, 8, 0, 4, 4, 4,
           9, 6, 8, 2, 9, 2, 7, 6, 4, 7, 5, 0, 9, 4, 6, 6, 4, 9, 0, 1, 7, 9, 7,
           7, 5, 8, 7, 2, 0, 7, 0, 9, 6, 3, 3, 0, 2, 8, 6, 4, 1, 6, 6, 9, 2, 8,
           8, 7, 9, 1, 0, 9, 4, 6, 5, 5, 5, 5, 4, 7, 8, 5, 1, 9, 4, 0, 4, 0, 2,
           6, 3, 0, 6, 5, 7, 4, 8, 8, 6, 7, 1, 5, 0, 5, 8, 2, 0, 6, 8, 1, 9, 0,
           8, 9, 0, 2, 0, 0, 0, 7, 0, 8, 3, 8, 3, 6, 7, 6, 2, 7, 3, 8, 5, 4, 8,
           4, 5, 8, 1, 7, 7, 1, 1, 5, 3, 1, 7, 6, 4, 4, 7, 5, 7, 3, 0, 2, 7, 0,
           0, 6, 9, 8, 5, 5, 5, 7, 1, 3, 6, 6, 9, 5, 9, 6, 2, 2, 8, 4, 2, 9, 1,
           4, 8, 1, 9, 8, 6, 0, 8, 3, 4, 9, 3, 6, 4, 7, 5, 2, 9, 2, 7, 1, 9, 0,
           7, 4, 1, 6, 8, 4, 4, 4, 3, 6, 5, 5, 1, 0, 7, 0, 4, 3, 4, 2, 7, 1, 1,
           5, 5, 9, 6, 9, 9, 5, 0, 8, 0, 9, 3, 0, 4, 2, 8, 8, 0, 1, 7, 7, 9, 0,
           4, 1, 7, 4, 4, 9, 7, 7, 9, 2 >>, 0)

\* 2^-1075 = 5^1075 * 10^-1075, half of the smallest double above zero: a
\* decimal of this magnitude or less is rounded to zero.
HalfToZero ==
    Dec(FALSE,
        << 2, 4, 7, 0, 3, 2, 8, 2, 2, 9, 2, 0, 6, 2, 3, 2, 7, 2, 0, 8, 8, 2, 8,
           4, 3, 9, 6, 4, 3, 4, 1, 1, 0, 6, 8, 6, 1, 8, 2, 5, 2, 9, 9, 0, 1, 3,
           0, 7, 1, 6, 2, 3, 8, 2, 2, 1, 2, 7, 9, 2, 8, 4, 1, 2, 5, 0, 3, 3, 7,
           7, 5, 3, 6, 3, 5, 1, 0, 4, 3, 7, 5, 9, 3, 2, 6, 4, 9, 9, 1, 8, 1, 8,
           0, 8, 1, 7, 9, 9, 6, 1, 8, 9, 8, 9, 8, 2, 8, 2, 3, 4, 7, 7, 2, 2, 8,
           5, 8, 8, 6, 5, 4, 6, 3, 3, 2, 8, 3, 5, 5, 1, 7, 7, 9, 6, 9, 8, 9, 8,
           1, 9, 9, 3, 8, 7, 3, 9, 8, 0, 0, 5, 3, 9, 0, 9, 3, 9, 0, 6, 3, 1, 5,
           0, 3, 5, 6, 5, 9, 5, 1, 5, 5, 7, 0, 2, 2, 6, 3, 9, 2, 2, 9, 0, 8, 5,
           8, 3, 9, 2, 4, 4, 9, 1, 0, 5, 1, 8, 4, 4, 3, 5, 9, 3, 1, 8, 0, 2, 8,
           4, 9, 9, 3, 6, 5, 3, 6, 1, 5, 2, 5, 0, 0, 3, 1, 9, 3, 7, 0, 4, 5, 7,
           6, 7, 8, 2, 4, 9, 2, 1, 9, 3, 6, 5, 6, 2, 3, 6, 6, 9, 8, 6, 3, 6, 5,
           8, 4, 8, 0, 7, 5, 7, 0, 0, 1, 5, 8, 5, 7, 6, 9, 2, 6, 9, 9, 0, 3, 7,
           0, 6, 3, 1, 1, 9, 2, 8, 2, 7, 9, 5, 5, 8, 5, 5, 1, 3, 3, 2, 9, 2, 7,
           8, 3, 4, 3, 3, 8, 4, 0, 9, 3, 5, 1, 9, 7, 8, 0, 1, 5, 5, 3, 1, 2, 4,
           6, 5, 9, 7, 2, 6, 3, 5, 7, 9, 5, 7, 4, 6, 2, 2, 7, 6, 6, 4, 6, 5, 2,
           7, 2, 8, 2, 7, 2, 2, 0, 0, 5, 6, 3, 7, 4, 0, 0, 6, 4, 8, 5, 4, 9, 9,
           9, 7, 7, 0, 9, 6, 5, 9, 9, 4, 7, 0, 4, 5, 4, 0, 2, 0, 8, 2, 8, 1, 6,
           6, 2, 2, 6, 2, 3, 7, 8, 5, 7, 3, 9, 3, 4, 5, 0, 7, 3, 6, 3, 3, 9, 0,
           0, 7, 9, 6, 7, 7, 6, 1, 9, 3, 0, 5, 7, 7, 5, 0, 6, 7, 4, 0, 1, 7, 6,
           3, 2, 4, 6, 7, 3, 6, 0, 0, 9, 6, 8, 9, 5, 1, 3, 4, 0, 5, 3, 5, 5, 3,
           7, 4, 5, 8, 5, 1, 6, 6, 6, 1, 1, 3, 4, 2, 2, 3, 7, 6, 6, 6, 7, 8, 6,
           0, 4, 1, 6, 2, 1, 5, 9, 6, 8, 0, 4, 6, 1, 9, 1, 4, 4, 6, 7, 2, 9, 1,
           8, 4, 0, 3, 0, 0, 5, 3, 0, 0, 5, 7, 5, 3, 0, 8, 4, 9, 0, 4, 8, 7, 6,
           5, 3, 9, 1, 7, 1, 1, 3, 8, 6, 5, 9, 1, 6, 4, 6, 2, 3, 9, 5, 2, 4, 9,
           1, 2, 6, 2, 3, 6, 5, 3, 8, 8, 1, 8, 7, 9, 6, 3, 6, 2, 3, 9, 3, 7, 3,
           2, 8, 0, 4, 2, 3, 8, 9, 1, 0, 1, 8, 6, 7, 2, 3, 4, 8, 4, 9, 7, 6, 6,
           8, 2, 3, 5, 0, 8, 9, 8, 6, 3, 3, 8, 8, 5, 8, 7, 9, 2, 5, 6, 2, 8, 3,
           0, 2, 7, 5, 5, 9, 9, 5, 6, 5, 7, 5, 2, 4, 4, 5, 5, 5, 0, 7, 2, 5, 5,
           1, 8, 9, 3, 1, 3, 6, 9, 0, 8, 3, 6, 2, 5, 4, 7, 7, 9, 1, 8, 6, 9, 4,
           8, 6, 6, 7, 9, 9, 4, 9, 6, 8, 3, 2, 4, 0, 4, 9, 7, 0, 5, 8, 2, 1, 0,
           2, 8, 5, 1, 3, 1, 8, 5, 4, 5, 1, 3, 9, 6, 2, 1, 3, 8, 3, 7, 7, 2, 2,
           8, 2, 6, 1, 4, 5, 4, 3, 7, 6, 9, 3, 4, 1, 2, 5, 3, 2, 0, 9, 8, 5, 9,
           1, 3, 2, 7, 6, 6, 7, 2, 3, 6, 3, 2, 8, 1, 2, 5 >>, -1075)

\* Natural numbers of any size are sequences of decimal digits, the first
\* digit not 0, the empty sequence for 0.

\* 2 * n: the carry into a digit is 1 when the digit on its right is 5 or more.
Twice(ds) ==
    LET n == Len(ds)
        body == [i \in 1..n |->
                    ((2 * ds[i]) % 10) + (IF i < n /\ ds[i + 1] >= 5 THEN 1 ELSE 0)]
    IN  (IF n > 0 /\ ds[1] >= 5 THEN << 1 >> ELSE << >>) \o body

\* n \div 2: a digit takes 10 from an odd digit on its left.
Half(ds) ==
    LET n == Len(ds)
        body == [i \in 1..n |->
                    (ds[i] + (IF i > 1 /\ (ds[i - 1] % 2) = 1 THEN 10 ELSE 0)) \div 2]
    IN  IF n > 0 /\ ds[1] = 1 THEN SubSeq(body, 2, n) ELSE << >> \o body

\* n + 1
Succ(ds) ==
    LET n == Len(ds)
    IN  IF \A i \in 1..n : ds[i] = 9 THEN << 1 >> \o [i \in 1..n |-> 0]
        ELSE LET j == CHOOSE i \in 1..n :
                          ds[i] # 9 /\ \A l \in (i + 1)..n : ds[l] = 9
             IN  << >> \o [i \in 1..n |-> IF i < j THEN ds[i]
                                          ELSE IF i = j THEN ds[i] + 1 ELSE 0]

\* n - 1 for n > 0
Pred(ds) ==
    LET n == Len(ds)
        j == CHOOSE i \in 1..n : ds[i] # 0 /\ \A l \in (i + 1)..n : ds[l] = 0
        body == [i \in 1..n |-> IF i < j THEN ds[i]
                                ELSE IF i = j THEN ds[i] - 1 ELSE 9]
    IN  IF j = 1 /\ ds[1] = 1 THEN SubSeq(body, 2, n) ELSE << >> \o body

\* a < b
NatLt(a, b) ==
    IF Len(a) # Len(b) THEN Len(a) < Len(b)
    ELSE IF a = b THEN FALSE
    ELSE LET i == CHOOSE i \in 1..Len(a) :
                      a[i] # b[i] /\ \A j \in 1..(i - 1) : a[j] = b[j]
         IN  a[i] < b[i]

\* n * 2^p for p >= 0, n * 5^(-p) for p < 0: the digits of n * 2^p, to be
\* read with -p digits after the point when p < 0.  One half of the steps,
\* then the other.
RECURSIVE Times(_, _)
Times(ds, p) ==
    IF p = 0 THEN ds
    ELSE IF p = 1 THEN Twice(ds)
    ELSE IF p = -1 THEN Half(Append(ds, 0))
    ELSE With(Times(ds, p \div 2), LAMBDA t : Times(t, p - (p \div 2)))

\* 2^53: the significand of a double is below it.
Two53 == << 9, 0, 0, 7, 1, 9, 9, 2, 5, 4, 7, 4, 0, 9, 9, 2 >>

\* A decimal above zero on its way to n * 2^q with n a natural number in
\* [2^53, 2^54), or below 2^53 with q = -1075: st is [d, k, q, s, done] for
\* the value (d / 10^k) * 2^q, s telling that something above zero has been
\* dropped.  Up to steps doublings or halvings are made, one half of them,
\* then the other; the last step leaves n in d.
RECURSIVE Scaled(_, _)
Scaled(st, steps) ==
    LET whole == IF Len(st.d) > st.k THEN SubSeq(st.d, 1, Len(st.d) - st.k) ELSE << >>
        frac == \E i \in (Len(st.d) - st.k + 1)..Len(st.d) : i >= 1 /\ st.d[i] # 0
    IN  IF st.done THEN st
        ELSE IF steps > 1
        THEN With(Scaled(st, steps \div 2),
                  LAMBDA t : Scaled(t, steps - (steps \div 2)))
        ELSE IF NatLt(whole, Two53) /\ st.q > -1075
        THEN [st EXCEPT !.d = Twice(st.d), !.q = st.q - 1]
        ELSE IF ~NatLt(whole, Twice(Two53))
        THEN [d |-> Half(whole), k |-> 0, q |-> st.q + 1, done |-> FALSE,
              s |-> st.s \/ frac \/ (whole[Len(whole)] % 2) = 1]
        ELSE [d |-> whole, k |-> 0, q |-> st.q, s |-> st.s \/ frac, done |-> TRUE]

\* The double nearest to the decimal ds * 10^e, which is above zero, between
\* 2^-1075 and 2^1024 - 2^970: [m, q] for m * 2^q, ties to the even m.  No
\* such decimal takes more than 2048 steps of Scaled.
Nearest(ds, e) ==
    With(Scaled([d |-> IF e > 0 THEN ds \o [i \in 1..e |-> 0] ELSE ds,
                 k |-> IF e < 0 THEN 0 - e ELSE 0, q |-> 0, s |-> FALSE,
                 done |-> FALSE], 2048),
         LAMBDA t :
           With(Half(t.d), LAMBDA m :
             LET odd(n) == n # << >> /\ (n[Len(n)] % 2) = 1
                 up == odd(t.d) /\ (t.s \/ odd(m))
             IN  IF ~up THEN [m |-> m, q |-> t.q + 1]
                 ELSE IF Succ(m) = Two53 THEN [m |-> Half(Two53), q |-> t.q + 2]
                 ELSE [m |-> Succ(m), q |-> t.q + 1]))

\* The shortest decimal, of n digits or more, that lies between lo and hi
\* (the two included when incl) and, of these, the nearest to w, the even one
\* of two equally near: w, lo and hi are numbers of units 10^e.
RECURSIVE Shortest(_, _, _, _, _)
Shortest(w, lo, hi, incl, n) ==
    IF n >= Len(w) THEN w
    ELSE LET zeros == [i \in 1..(Len(w) - n) |-> 0]
             floor == SubSeq(w, 1, n) \o zeros
             ceil == Succ(SubSeq(w, 1, n)) \o zeros
             floorIn == NatLt(lo, floor) \/ (incl /\ lo = floor)
             ceilIn == NatLt(ceil, hi) \/ (incl /\ ceil = hi)
             rest == SubSeq(w, n + 1, Len(w))
             above == \/ rest[1] > 5
                      \/ rest[1] = 5 /\ \E i \in 2..Len(rest) : rest[i] # 0
             half == rest[1] = 5 /\ \A i \in 2..Len(rest) : rest[i] = 0
         IN  IF floorIn /\ ceilIn
             THEN (IF above \/ (half /\ (w[n] % 2) = 1) THEN ceil ELSE floor)
             ELSE IF floorIn THEN floor
             ELSE IF ceilIn THEN ceil
             ELSE Shortest(w, lo, hi, incl, n + 1)

\* repr of the double m * 2^q: the shortest decimal that rounds to it.  The
\* decimals that round to it lie between the middles of it and its two
\* neighbours, the lower of which is half as far below a power of two.
Repr(neg, m, q) ==
    LET odd1(n) == IF n = << >> THEN << 1 >> ELSE [n EXCEPT ![Len(n)] = @ + 1]
        incl == (m[Len(m)] % 2) = 0
        low == IF m = Half(Two53) /\ q > -1074
               THEN odd1(Twice(Pred(Twice(m))))
               ELSE Twice(odd1(Twice(Pred(m))))
    IN  With(Times(Twice(Twice(m)), q - 2), LAMBDA w :
          With(Times(low, q - 2), LAMBDA lo :
            With(Times(Twice(odd1(Twice(m))), q - 2), LAMBDA hi :
              Dec(neg, Shortest(w, lo, hi, incl, 1), IF q < 2 THEN q - 2 ELSE 0))))

\* float(text) of a finite decimal: the double nearest to it, written as the
\* shortest decimal that rounds to that double.  A decimal of 15 digits or
\* less between 10^-307 and the largest double is that shortest decimal.
Rounded(x) ==
    IF IsZero(x) THEN x
    ELSE IF ~MagLt(x, HalfToInf) THEN (IF x.neg THEN NegInf ELSE PosInf)
    ELSE IF ~MagLt(HalfToZero, x) THEN (IF x.neg THEN NegZero ELSE Zero)
    ELSE IF Len(x.d) <= 15 /\ Len(x.d) + x.e > -307 THEN x
    ELSE With(Nearest(x.d, x.e), LAMBDA b : Repr(x.neg, b.m, b.q))

\* ------------------------------------------------------------------------
\* Strings as character sequences: str.strip, str.lower, float(str)
\* ------------------------------------------------------------------------
\* A string is a sequence of characters.  A printable ASCII character and
\* each of \t \n \r \f is the one-character string of it; any other code
\* point is the string "U+" followed by its number in 4 to 6 capital
\* hexadecimal digits ("U+000B", "U+212A", "U+1D7CE").

\* The characters str.strip() and float() take as whitespace.
Whitespace ==
    { "\t", "\n", "U+000B", "\f", "\r", "U+001C", "U+001D", "U+001E",
      "U+001F", " ", "U+0085", "U+00A0", "U+1680", "U+2000", "U+2001",
      "U+2002", "U+2003", "U+2004", "U+2005", "U+2006", "U+2007", "U+2008",
      "U+2009", "U+200A", "U+2028", "U+2029", "U+202F", "U+205F", "U+3000" }

\* str.strip(): drop the whitespace at both ends.
StrStrip(s) ==
    LET idx == {i \in 1..Len(s) : s[i] \notin Whitespace}
    IN  IF idx = {} THEN << >>
        ELSE LET lo == CHOOSE i \in idx : \A j \in idx : i <= j
                 hi == CHOOSE i \in idx : \A j \in idx : j <= i
             IN  SubSeq(s, lo, hi)

LowerCase == << "a", "b", "c", "d", "e", "f", "g", "h", "i", "j", "k", "l", "m",
                "n", "o", "p", "q", "r", "s", "t", "u", "v", "w", "x", "y", "z" >>
UpperCase == << "A", "B", "C", "D", "E", "F", "G", "H", "I", "J", "K", "L", "M",
                "N", "O", "P", "Q", "R", "S", "T", "U", "V", "W", "X", "Y", "Z" >>

\* c is l or the ASCII capital of l.
AsciiFoldsTo(c, l) ==
    c = l \/ \E i \in 1..Len(LowerCase) : LowerCase[i] = l /\ UpperCase[i] = c

\* c.lower() == l, for l an ASCII digit or small letter.  Besides the ASCII
\* capitals one code point lower-cases to an ASCII character: U+212A KELVIN
\* SIGN, to "k".  (U+0130 lower-cases to "i" followed by U+0307, and the
\* final-sigma rule of str.lower() yields Greek letters only.)
FoldsTo(c, l) == AsciiFoldsTo(c, l) \/ (c = "U+212A" /\ l = "k")

\* s.lower() == w, for w made of ASCII digits and small letters.
LowersTo(s, w) == Len(s) = Len(w) /\ \A i \in 1..Len(s) : FoldsTo(s[i], w[i])

\* s is w in any mix of ASCII letter cases, as float() compares "inf",
\* "infinity" and "nan".
MatchesWord(s, w) == Len(s) = Len(w) /\ \A i \in 1..Len(s) : AsciiFoldsTo(s[i], w[i])

\* The decimal digits float() accepts: "0".."9" and the digits 0..9 of every
\* other script of Unicode 14, one row per script.
DecimalRows ==
    << << "0", "1", "2", "3", "4", "5", "6", "7", "8", "9" >>,
       << "U+0660", "U+0661", "U+0662", "U+0663", "U+0664", "U+0665", "U+0666", "U+0667", "U+0668", "U+0669" >>,
       << "U+06F0", "U+06F1", "U+06F2", "U+06F3", "U+06F4", "U+06F5", "U+06F6", "U+06F7", "U+06F8", "U+06F9" >>,
       << "U+07C0", "U+07C1", "U+07C2", "U+07C3", "U+07C4", "U+07C5", "U+07C6", "U+07C7", "U+07C8", "U+07C9" >>,
       << "U+0966", "U+0967", "U+0968", "U+0969", "U+096A", "U+096B", "U+096C", "U+096D", "U+096E", "U+096F" >>,
       << "U+09E6", "U+09E7", "U+09E8", "U+09E9", "U+09EA", "U+09EB", "U+09EC", "U+09ED", "U+09EE", "U+09EF" >>,
       << "U+0A66", "U+0A67", "U+0A68", "U+0A69", "U+0A6A", "U+0A6B", "U+0A6C", "U+0A6D", "U+0A6E", "U+0A6F" >>,
       << "U+0AE6", "U+0AE7", "U+0AE8", "U+0AE9", "U+0AEA", "U+0AEB", "U+0AEC", "U+0AED", "U+0AEE", "U+0AEF" >>,
       << "U+0B66", "U+0B67", "U+0B68", "U+0B69", "U+0B6A", "U+0B6B", "U+0B6C", "U+0B6D", "U+0B6E", "U+0B6F" >>,
       << "U+0BE6", "U+0BE7", "U+0BE8", "U+0BE9", "U+0BEA", "U+0BEB", "U+0BEC", "U+0BED", "U+0BEE", "U+0BEF" >>,
       << "U+0C66", "U+0C67", "U+0C68", "U+0C69", "U+0C6A", "U+0C6B", "U+0C6C", "U+0C6D", "U+0C6E", "U+0C6F" >>,
       << "U+0CE6", "U+0CE7", "U+0CE8", "U+0CE9", "U+0CEA", "U+0CEB", "U+0CEC", "U+0CED", "U+0CEE", "U+0CEF" >>,
       << "U+0D66", "U+0D67", "U+0D68", "U+0D69", "U+0D6A", "U+0D6B", "U+0D6C", "U+0D6D", "U+0D6E", "U+0D6F" >>,
       << "U+0DE6", "U+0DE7", "U+0DE8", "U+0DE9", "U+0DEA", "U+0DEB", "U+0DEC", "U+0DED", "U+0DEE", "U+0DEF" >>,
       << "U+0E50", "U+0E51", "U+0E52", "U+0E53", "U+0E54", "U+0E55", "U+0E56", "U+0E57", "U+0E58", "U+0E59" >>,
       << "U+0ED0", "U+0ED1", "U+0ED2", "U+0ED3", "U+0ED4", "U+0ED5", "U+0ED6", "U+0ED7", "U+0ED8", "U+0ED9" >>,
       << "U+0F20", "U+0F21", "U+0F22", "U+0F23", "U+0F24", "U+0F25", "U+0F26", "U+0F27", "U+0F28", "U+0F29" >>,
       << "U+1040", "U+1041", "U+1042", "U+1043", "U+1044", "U+1045", "U+1046", "U+1047", "U+1048", "U+1049" >>,
       << "U+1090", "U+1091", "U+1092", "U+1093", "U+1094", "U+1095", "U+1096", "U+1097", "U+1098", "U+1099" >>,
       << "U+17E0", "U+17E1", "U+17E2", "U+17E3", "U+17E4", "U+17E5", "U+17E6", "U+17E7", "U+17E8", "U+17E9" >>,
       << "U+1810", "U+1811", "U+1812", "U+1813", "U+1814", "U+1815", "U+1816", "U+1817", "U+1818", "U+1819" >>,
       << "U+1946", "U+1947", "U+1948", "U+1949", "U+194A", "U+194B", "U+194C", "U+194D", "U+194E", "U+194F" >>,
       << "U+19D0", "U+19D1", "U+19D2", "U+19D3", "U+19D4", "U+19D5", "U+19D6", "U+19D7", "U+19D8", "U+19D9" >>,
       << "U+1A80", "U+1A81", "U+1A82", "U+1A83", "U+1A84", "U+1A85", "U+1A86", "U+1A87", "U+1A88", "U+1A89" >>,
       << "U+1A90", "U+1A91", "U+1A92", "U+1A93", "U+1A94", "U+1A95", "U+1A96", "U+1A97", "U+1A98", "U+1A99" >>,
       << "U+1B50", "U+1B51", "U+1B52", "U+1B53", "U+1B54", "U+1B55", "U+1B56", "U+1B57", "U+1B58", "U+1B59" >>,
       << "U+1BB0", "U+1BB1", "U+1BB2", "U+1BB3", "U+1BB4", "U+1BB5", "U+1BB6", "U+1BB7", "U+1BB8", "U+1BB9" >>,
       << "U+1C40", "U+1C41", "U+1C42", "U+1C43", "U+1C44", "U+1C45", "U+1C46", "U+1C47", "U+1C48", "U+1C49" >>,
       << "U+1C50", "U+1C51", "U+1C52", "U+1C53", "U+1C54", "U+1C55", "U+1C56", "U+1C57", "U+1C58", "U+1C59" >>,
       << "U+A620", "U+A621", "U+A622", "U+A623", "U+A624", "U+A625", "U+A626", "U+A627", "U+A628", "U+A629" >>,
       << "U+A8D0", "U+A8D1", "U+A8D2", "U+A8D3", "U+A8D4", "U+A8D5", "U+A8D6", "U+A8D7", "U+A8D8", "U+A8D9" >>,
       << "U+A900", "U+A901", "U+A902", "U+A903", "U+A904", "U+A905", "U+A906", "U+A907", "U+A908", "U+A909" >>,
       << "U+A9D0", "U+A9D1", "U+A9D2", "U+A9D3", "U+A9D4", "U+A9D5", "U+A9D6", "U+A9D7", "U+A9D8", "U+A9D9" >>,
       << "U+A9F0", "U+A9F1", "U+A9F2", "U+A9F3", "U+A9F4", "U+A9F5", "U+A9F6", "U+A9F7", "U+A9F8", "U+A9F9" >>,
       << "U+AA50", "U+AA51", "U+AA52", "U+AA53", "U+AA54", "U+AA55", "U+AA56", "U+AA57", "U+AA58", "U+AA59" >>,
       << "U+ABF0", "U+ABF1", "U+ABF2", "U+ABF3", "U+ABF4", "U+ABF5", "U+ABF6", "U+ABF7", "U+ABF8", "U+ABF9" >>,
       << "U+FF10", "U+FF11", "U+FF12", "U+FF13", "U+FF14", "U+FF15", "U+FF16", "U+FF17", "U+FF18", "U+FF19" >>,
       << "U+104A0", "U+104A1", "U+104A2", "U+104A3", "U+104A4", "U+104A5", "U+104A6", "U+104A7", "U+104A8", "U+104A9" >>,
       << "U+10D30", "U+10D31", "U+10D32", "U+10D33", "U+10D34", "U+10D35", "U+10D36", "U+10D37", "U+10D38", "U+10D39" >>,
       << "U+11066", "U+11067", "U+11068", "U+11069", "U+1106A", "U+1106B", "U+1106C", "U+1106D", "U+1106E", "U+1106F" >>,
       << "U+110F0", "U+110F1", "U+110F2", "U+110F3", "U+110F4", "U+110F5", "U+110F6", "U+110F7", "U+110F8", "U+110F9" >>,
       << "U+11136", "U+11137", "U+11138", "U+11139", "U+1113A", "U+1113B", "U+1113C", "U+1113D", "U+1113E", "U+1113F" >>,
       << "U+111D0", "U+111D1", "U+111D2", "U+111D3", "U+111D4", "U+111D5", "U+111D6", "U+111D7", "U+111D8", "U+111D9" >>,
       << "U+112F0", "U+112F1", "U+112F2", "U+112F3", "U+112F4", "U+112F5", "U+112F6", "U+112F7", "U+112F8", "U+112F9" >>,
       << "U+11450", "U+11451", "U+11452", "U+11453", "U+11454", "U+11455", "U+11456", "U+11457", "U+11458", "U+11459" >>,
       << "U+114D0", "U+114D1", "U+114D2", "U+114D3", "U+114D4", "U+114D5", "U+114D6", "U+114D7", "U+114D8", "U+114D9" >>,
       << "U+11650", "U+11651", "U+11652", "U+11653", "U+11654", "U+11655", "U+11656", "U+11657", "U+11658", "U+11659" >>,
       << "U+116C0", "U+116C1", "U+116C2", "U+116C3", "U+116C4", "U+116C5", "U+116C6", "U+116C7", "U+116C8", "U+116C9" >>,
       << "U+11730", "U+11731", "U+11732", "U+11733", "U+11734", "U+11735", "U+11736", "U+11737", "U+11738", "U+11739" >>,
       << "U+118E0", "U+118E1", "U+118E2", "U+118E3", "U+118E4", "U+118E5", "U+118E6", "U+118E7", "U+118E8", "U+118E9" >>,
       << "U+11950", "U+11951", "U+11952", "U+11953", "U+11954", "U+11955", "U+11956", "U+11957", "U+11958", "U+11959" >>,
       << "U+11C50", "U+11C51", "U+11C52", "U+11C53", "U+11C54", "U+11C55", "U+11C56", "U+11C57", "U+11C58", "U+11C59" >>,
       << "U+11D50", "U+11D51", "U+11D52", "U+11D53", "U+11D54", "U+11D55", "U+11D56", "U+11D57", "U+11D58", "U+11D59" >>,
       << "U+11DA0", "U+11DA1", "U+11DA2", "U+11DA3", "U+11DA4", "U+11DA5", "U+11DA6", "U+11DA7", "U+11DA8", "U+11DA9" >>,
       << "U+16A60", "U+16A61", "U+16A62", "U+16A63", "U+16A64", "U+16A65", "U+16A66", "U+16A67", "U+16A68", "U+16A69" >>,
       << "U+16AC0", "U+16AC1", "U+16AC2", "U+16AC3", "U+16AC4", "U+16AC5", "U+16AC6", "U+16AC7", "U+16AC8", "U+16AC9" >>,
       << "U+16B50", "U+16B51", "U+16B52", "U+16B53", "U+16B54", "U+16B55", "U+16B56", "U+16B57", "U+16B58", "U+16B59" >>,
       << "U+1D7CE", "U+1D7CF", "U+1D7D0", "U+1D7D1", "U+1D7D2", "U+1D7D3", "U+1D7D4", "U+1D7D5", "U+1D7D6", "U+1D7D7" >>,
       << "U+1D7D8", "U+1D7D9", "U+1D7DA", "U+1D7DB", "U+1D7DC", "U+1D7DD", "U+1D7DE", "U+1D7DF", "U+1D7E0", "U+1D7E1" >>,
       << "U+1D7E2", "U+1D7E3", "U+1D7E4", "U+1D7E5", "U+1D7E6", "U+1D7E7", "U+1D7E8", "U+1D7E9", "U+1D7EA", "U+1D7EB" >>,
       << "U+1D7EC", "U+1D7ED", "U+1D7EE", "U+1D7EF", "U+1D7F0", "U+1D7F1", "U+1D7F2", "U+1D7F3", "U+1D7F4", "U+1D7F5" >>,
       << "U+1D7F6", "U+1D7F7", "U+1D7F8", "U+1D7F9", "U+1D7FA", "U+1D7FB", "U+1D7FC", "U+1D7FD", "U+1D7FE", "U+1D7FF" >>,
       << "U+1E140", "U+1E141", "U+1E142", "U+1E143", "U+1E144", "U+1E145", "U+1E146", "U+1E147", "U+1E148", "U+1E149" >>,
       << "U+1E2F0", "U+1E2F1", "U+1E2F2", "U+1E2F3", "U+1E2F4", "U+1E2F5", "U+1E2F6", "U+1E2F7", "U+1E2F8", "U+1E2F9" >>,
       << "U+1E950", "U+1E951", "U+1E952", "U+1E953", "U+1E954", "U+1E955", "U+1E956", "U+1E957", "U+1E958", "U+1E959" >>,
       << "U+1FBF0", "U+1FBF1", "U+1FBF2", "U+1FBF3", "U+1FBF4", "U+1FBF5", "U+1FBF6", "U+1FBF7", "U+1FBF8", "U+1FBF9" >> >>

DecimalDigits == {DecimalRows[r][i] : r \in 1..Len(DecimalRows), i \in 1..10}

IsDigit(c) == c \in DecimalDigits
DigitVal(c) == (CHOOSE i \in 1..10 : \E r \in 1..Len(DecimalRows) : DecimalRows[r][i] = c) - 1
AllDigits(s) == \A i \in 1..Len(s) : IsDigit(s[i])

\* The digits of a digit string, as numbers.
DigitSeq(s) == [i \in 1..Len(s) |-> DigitVal(s[i])]

\* The value of a digit string.
RECURSIVE DigitsVal(_)
DigitsVal(s) ==
    IF s = << >> THEN 0
    ELSE 10 * DigitsVal(SubSeq(s, 1, Len(s) - 1)) + DigitVal(s[Len(s)])

\* The first position of s that holds a character of cs, 0 when none does.
FirstOf(s, cs) ==
    IF \A i \in 1..Len(s) : s[i] \notin cs THEN 0
    ELSE CHOOSE i \in 1..Len(s) : s[i] \in cs /\ \A j \in 1..(i - 1) : s[j] \notin cs

\* The value of the digits of an exponent.  An exponent of more than six
\* digits is taken as 1000000: a datagram holds at most max_packet
\* characters, so the mantissa cannot bring such a number back into the
\* range of the doubles.
ExpVal(s) ==
    With(FirstOf(s, DecimalDigits \ {DecimalRows[r][1] : r \in 1..Len(DecimalRows)}), LAMBDA lo :
        IF lo = 0 THEN 0
        ELSE IF Len(s) - lo + 1 > 6 THEN 1000000
        ELSE DigitsVal(SubSeq(s, lo, Len(s))))

\* PEP 515: an underscore is allowed between two digits only.
UnderscoresOk(s) ==
    \A i \in 1..Len(s) :
        s[i] = "_" => (1 < i /\ i < Len(s) /\ IsDigit(s[i - 1]) /\ IsDigit(s[i + 1]))

\* s without its underscores.
NoUnderscores(s) == SelectSeq(s, LAMBDA c : c # "_")

\* The exponent part after "e" or "E": an optional sign and digits.
ExpPart(s) ==
    LET signed == s # << >> /\ s[1] \in {"+", "-"}
        ds == IF signed THEN Tail(s) ELSE s
    IN  IF ds = << >> \/ ~AllDigits(ds) THEN [ok |-> FALSE, val |-> 0]
        ELSE [ok |-> TRUE,
              val |-> IF signed /\ s[1] = "-" THEN 0 - ExpVal(ds) ELSE ExpVal(ds)]

\* The mantissa m times 10^x: digits with at most one point and at least one
\* digit.
Mantissa(m, x) ==
    With(FirstOf(m, {"."}), LAMBDA k :
        LET ip == IF k = 0 THEN m ELSE SubSeq(m, 1, k - 1)
            fp == IF k = 0 THEN << >> ELSE SubSeq(m, k + 1, Len(m))
        IN  IF AllDigits(ip) /\ AllDigits(fp) /\ Len(ip) + Len(fp) > 0
            THEN With(DigitSeq(ip \o fp), LAMBDA ds :
                   With(Dec(FALSE, ds, x - Len(fp)), LAMBDA v :
                     [ok |-> TRUE, val |-> Rounded(v)]))
            ELSE [ok |-> FALSE, val |-> Zero])

\* The number after the sign: a mantissa, then an optional exponent; or inf,
\* infinity, nan.
UnsignedFloat(u) ==
    IF MatchesWord(u, << "n", "a", "n" >>) THEN [ok |-> TRUE, val |-> NaN]
    ELSE IF MatchesWord(u, << "i", "n", "f" >>)
            \/ MatchesWord(u, << "i", "n", "f", "i", "n", "i", "t", "y" >>)
         THEN [ok |-> TRUE, val |-> PosInf]
    ELSE IF ~UnderscoresOk(u) THEN [ok |-> FALSE, val |-> Zero]
    ELSE With(NoUnderscores(u), LAMBDA s :
           With(FirstOf(s, {"e", "E"}), LAMBDA k :
             IF k = 0 THEN Mantissa(s, 0)
             ELSE With(ExpPart(SubSeq(s, k + 1, Len(s))), LAMBDA x :
                    IF x.ok THEN Mantissa(SubSeq(s, 1, k - 1), x.val)
                    ELSE [ok |-> FALSE, val |-> Zero])))

\* -x
FloatNeg(x) ==
    IF x.k = "fin" THEN [x EXCEPT !.neg = ~x.neg]
    ELSE IF x.k = "inf" THEN NegInf
    ELSE IF x.k = "ninf" THEN PosInf
    ELSE x

\* float(s) for a str s: surrounding whitespace is ignored, one sign allowed.
\* ok = FALSE stands for ValueError.
StrToFloat(s) ==
    With(StrStrip(s), LAMBDA t :
        IF t = << >> THEN [ok |-> FALSE, val |-> Zero]
        ELSE IF t[1] = "-" THEN
             With(UnsignedFloat(Tail(t)), LAMBDA r :
                 IF r.ok THEN [ok |-> TRUE, val |-> FloatNeg(r.val)] ELSE r)
        ELSE IF t[1] = "+" THEN UnsignedFloat(Tail(t))
        ELSE UnsignedFloat(t))

\* ------------------------------------------------------------------------
\* JSON values as json.loads returns them
\* ------------------------------------------------------------------------
\* t: "int" (i: the integer; huge = TRUE for an integer too large for a
\* float), "float" (f), "str" (s), "bool" (b), "null", "list", "dict".

JDefault == [t |-> "null", i |-> 0, huge |-> FALSE, f |-> Zero, s |-> << >>, b |-> FALSE]
JInt(n) == [JDefault EXCEPT !.t = "int", !.i = n]
JHugeInt == [JDefault EXCEPT !.t = "int", !.huge = TRUE]
JFloat(x) == [JDefault EXCEPT !.t = "float", !.f = x]
JStr(chars) == [JDefault EXCEPT !.t = "str", !.s = chars]
JBool(v) == [JDefault EXCEPT !.t = "bool", !.b = v]
JNull == JDefault
JList == [JDefault EXCEPT !.t = "list"]
JDict == [JDefault EXCEPT !.t = "dict"]

\* A conversion result: ok = FALSE stands for the exception raised.
Ok(x) == [ok |-> TRUE, val |-> x]
Raise == [ok |-> FALSE, val |-> Zero]

\* to_float: bool is a subclass of int, so True/False pass the first test;
\* float(int) raises OverflowError for an integer beyond the float range.
to_float(v) ==
    IF v.t \in {"int", "bool", "float"} THEN
        IF v.t = "bool" THEN Ok(IF v.b THEN One ELSE Zero)
        ELSE IF v.t = "float" THEN Ok(v.f)
        ELSE IF v.huge THEN Raise
        ELSE Ok(IntFloat(v.i))
    ELSE IF v.t = "str" THEN StrToFloat(v.s)
    ELSE Raise

TruthyStrings == { << "1" >>, << "t", "r", "u", "e" >>, << "y", "e", "s" >>, << "y" >> }

\* A to_bool that takes a string by Python truthiness: any non-empty string.
to_bool_truthy(v) ==
    IF v.t = "bool" THEN [ok |-> TRUE, bval |-> v.b]
    ELSE IF v.t = "int" THEN [ok |-> TRUE, bval |-> (v.huge \/ v.i # 0)]
    ELSE IF v.t = "float" THEN [ok |-> TRUE, bval |-> ~IsZero(v.f)]
    ELSE IF v.t = "str" THEN [ok |-> TRUE, bval |-> (v.s # << >>)]
    ELSE [ok |-> FALSE, bval |-> FALSE]

\* to_bool; bval = the bool, ok = FALSE stands for ValueError.
to_bool(v) ==
    IF v.t = "bool" THEN [ok |-> TRUE, bval |-> v.b]
    ELSE IF v.t = "int" THEN [ok |-> TRUE, bval |-> (v.huge \/ v.i # 0)]
    ELSE IF v.t = "float" THEN [ok |-> TRUE, bval |-> ~IsZero(v.f)]
    ELSE IF v.t = "str"
         THEN With(StrStrip(v.s), LAMBDA t :
                  [ok |-> TRUE, bval |-> \E w \in TruthyStrings : LowersTo(t, w)])
    ELSE [ok |-> FALSE, bval |-> FALSE]

\* ------------------------------------------------------------------------
\* Packets and parse_packet
\* ------------------------------------------------------------------------
\* A datagram: enc = "utf8" or "invalid" (raw.decode fails), syntax = "json"
\* or "invalid" (json.loads fails), top = the type of the decoded JSON value,
\* fields = the members of a top-level object.

Sample(ts, a, g, v) == [ts |-> ts, aTA |-> a, aGAS |-> g, valid |-> v]
NoSample == Sample(Zero, Zero, Zero, FALSE)

ParseFail == [ok |-> FALSE, val |-> NoSample]

\* parse_packet: ok = FALSE stands for any exception it raises
\* (UnicodeDecodeError, JSONDecodeError, TypeError on a non-object, KeyError
\* on a missing field, ValueError/OverflowError from a coercion).
parse_packet(raw) ==
    IF raw.enc # "utf8" THEN ParseFail
    ELSE IF raw.syntax # "json" THEN ParseFail
    ELSE IF raw.top # "dict" THEN ParseFail
    ELSE IF "ts" \notin DOMAIN raw.fields THEN ParseFail
    ELSE LET ts == to_float(raw.fields["ts"])
         IN  IF ~ts.ok THEN ParseFail
             ELSE IF "aTA" \notin DOMAIN raw.fields THEN ParseFail
             ELSE LET a == to_float(raw.fields["aTA"])
                  IN  IF ~a.ok THEN ParseFail
                      ELSE IF "aGAS" \notin DOMAIN raw.fields THEN ParseFail
                      ELSE LET g == to_float(raw.fields["aGAS"])
                           IN  IF ~g.ok THEN ParseFail
                               ELSE IF "valid" \notin DOMAIN raw.fields THEN ParseFail
                               ELSE LET v == to_bool(raw.fields["valid"])
                                    IN  IF ~v.ok THEN ParseFail
                                        ELSE [ok |-> TRUE,
                                              val |-> Sample(ts.val, clamp01(a.val),
                                                             clamp01(g.val), v.bval)]

NoFields == [k \in {} |-> JNull]
Datagram(fields) == [enc |-> "utf8", syntax |-> "json", top |-> "dict", fields |-> fields]

\* Well-formed packets.
\* {"ts": 1.5, "aTA": 0.42, "aGAS": Infinity, "valid": true}
PktA == Datagram([ts |-> JFloat(Fin(150)), aTA |-> JFloat(Fin(42)),
                  aGAS |-> JFloat(PosInf), valid |-> JBool(TRUE)])
\* {"ts": " 2.5 ", "aTA": -0.1, "aGAS": 1.7, "valid": "YES", "seq": 7}
PktB == Datagram([ts |-> JStr(<< " ", "2", ".", "5", " " >>), aTA |-> JFloat(Fin(-10)),
                  aGAS |-> JFloat(Fin(170)), valid |-> JStr(<< "Y", "E", "S" >>),
                  seq |-> JInt(7)])
\* {"ts": NaN, "aTA": NaN, "aGAS": -Infinity, "valid": 0}
PktC == Datagram([ts |-> JFloat(NaN), aTA |-> JFloat(NaN),
                  aGAS |-> JFloat(NegInf), valid |-> JInt(0)])
\* Malformed packets.
\* b"\xff"
PktBadUtf8 == [enc |-> "invalid", syntax |-> "invalid", top |-> "null", fields |-> NoFields]
\* b"{\"ts\": 1"
PktBadJson == [enc |-> "utf8", syntax |-> "invalid", top |-> "null", fields |-> NoFields]
\* b"[1, 2]"
PktNotObject == [enc |-> "utf8", syntax |-> "json", top |-> "list", fields |-> NoFields]
\* {"ts": 1.5, "aTA": 0.42, "aGAS": 0.77}
PktMissing == Datagram([ts |-> JFloat(Fin(150)), aTA |-> JFloat(Fin(42)),
                        aGAS |-> JFloat(Fin(77))])
\* {"ts": 1.5, "aTA": "abc", "aGAS": 0.77, "valid": true}
PktBadNumber == Datagram([ts |-> JFloat(Fin(150)), aTA |-> JStr(<< "a", "b", "c" >>),
                          aGAS |-> JFloat(Fin(77)), valid |-> JBool(TRUE)])
\* {"ts": 1.5, "aTA": 0.42, "aGAS": 0.77, "valid": null}
PktBadValid == Datagram([ts |-> JFloat(Fin(150)), aTA |-> JFloat(Fin(42)),
                         aGAS |-> JFloat(Fin(77)), valid |-> JNull])

GoodPackets == {PktA, PktB, PktC}
BadPackets == {PktBadUtf8, PktBadJson, PktNotObject, PktMissing, PktBadNumber, PktBadValid}
Packets == GoodPackets \cup BadPackets

\* Values a sender can put in one field, of every JSON type.
NumberInputs ==
    { JInt(0), JInt(1), JInt(-3), JHugeInt, JFloat(Zero), JFloat(Fin(42)),
      JFloat(Fin(-10)), JFloat(Fin(170)), JFloat(NaN), JFloat(PosInf), JFloat(NegInf) }
StringInputs ==
    { JStr(<< " ", "2", ".", "5", " " >>), JStr(<< "-", "0", ".", "5" >>),
      JStr(<< "+", ".", "5" >>), JStr(<< "i", "n", "f" >>), JStr(<< "N", "a", "N" >>),
      JStr(<< >>), JStr(<< " ", " " >>), JStr(<< "a", "b", "c" >>),
      JStr(<< "1", ".", "2", ".", "3" >>),
      JStr(<< "1" >>), JStr(<< "t", "r", "u", "e" >>), JStr(<< "y", "e", "s" >>),
      JStr(<< "y" >>), JStr(<< "Y", "E", "S" >>), JStr(<< " ", "T", "r", "u", "e", " " >>),
      JStr(<< "\t", "Y", "\n" >>), JStr(<< "f", "a", "l", "s", "e" >>), JStr(<< "0" >>),
      JStr(<< "n", "o" >>), JStr(<< "2" >>), JStr(<< "o", "n" >>),
      JStr(<< "U+000B", "y", "e", "s" >>), JStr(<< "U+00A0", "t", "r", "u", "e" >>),
      JStr(<< "1", "U+001F" >>), JStr(<< "U+2003", "0", ".", "5", "U+3000" >>),
      JStr(<< "1", "e", "2" >>), JStr(<< "1", "E", "-", "2" >>),
      JStr(<< "0", ".", "1", "2", "5" >>), JStr(<< "1", "_", "0" >>),
      JStr(<< "1", "_" >>), JStr(<< "U+FF11" >>),
      JStr(<< "U+0661", ".", "U+0665" >>), JStr(<< "-", "0" >>),
      JStr(<< "1", "e", "4", "0", "0" >>), JStr(<< "1", "e", "-", "4", "0", "0" >>),
      JStr(<< "-", "I", "n", "f", "i", "n", "i", "t", "y" >>),
      JStr(<< "U+0130" >>), JStr(<< "U+212A" >>),
      JStr(<< "0", ".", "9", "9", "9", "9", "9", "9", "9", "9", "9", "9", "9", "9", "9", "9", "9", "9", "9" >>),
      JStr(<< "0", ".", "1", "0", "0", "0", "0", "0", "0", "0", "0", "0", "0", "0", "0", "0", "0", "0", "1" >>),
      JStr(<< "1", ".", "0", "0", "0", "0", "0", "0", "0", "0", "0", "0", "0", "0", "0", "0", "0", "0", "0", "0", "0", "1" >>) }
OtherInputs == { JBool(TRUE), JBool(FALSE), JNull, JList, JDict }
FieldInputs == NumberInputs \cup StringInputs \cup OtherInputs

FieldNames == {"ts", "aTA", "aGAS", "valid"}

\* {"ts": 1.5, "aTA": 0.42, "aGAS": 0.77, "valid": true} with one field
\* replaced by each of the values above.
CodecBase == [ts |-> JFloat(Fin(150)), aTA |-> JFloat(Fin(42)),
              aGAS |-> JFloat(Fin(77)), valid |-> JBool(TRUE)]
CodecPackets ==
    { Datagram([CodecBase EXCEPT ![f] = v]) : f \in FieldNames, v \in FieldInputs }

\* ------------------------------------------------------------------------
\* Serialisation: the CSV lines of csv.DictWriter and the text of json.dump
\* ------------------------------------------------------------------------
\* A cell or JSON literal is [s, v]: s = "num" with v the finite value, or
\* the text the format writes for a non-finite float, a bool or a name.

Cell(s) == [s |-> s, v |-> Zero]

\* str(float) as csv writes it.
CsvFloat(x) ==
    IF x.k = "fin" THEN [s |-> "num", v |-> x]
    ELSE IF x.k = "nan" THEN Cell("nan")
    ELSE IF x.k = "inf" THEN Cell("inf")
    ELSE Cell("-inf")

\* str(bool) as csv writes it.
CsvBool(b) == IF b THEN Cell("True") ELSE Cell("False")

\* fieldnames of the DictWriter.
Header == << Cell("recv_ts"), Cell("ts"), Cell("aTA"), Cell("aGAS"), Cell("valid") >>

\* time.time() as a float: the clock counts whole seconds.
TimeFloat(t) == IntFloat(t)

\* A row that leaves the sample's fields in the wrong columns.
CsvRow_swapped(recv_ts, emg) ==
    << CsvFloat(TimeFloat(recv_ts)), CsvFloat(emg.ts), CsvFloat(emg.aGAS),
       CsvFloat(emg.aTA), CsvBool(emg.valid) >>

\* writer.writerow({"recv_ts": recv_ts, **emg})
CsvRow(recv_ts, emg) ==
    << CsvFloat(TimeFloat(recv_ts)), CsvFloat(emg.ts), CsvFloat(emg.aTA),
       CsvFloat(emg.aGAS), CsvBool(emg.valid) >>

\* json.dumps of a float (allow_nan is on by default).
JsonFloat(x) ==
    IF x.k = "fin" THEN [s |-> "num", v |-> x]
    ELSE IF x.k = "nan" THEN Cell("NaN")
    ELSE IF x.k = "inf" THEN Cell("Infinity")
    ELSE Cell("-Infinity")

JsonBool(b) == IF b THEN Cell("true") ELSE Cell("false")

Member(key, lit) == [key |-> key, s |-> lit.s, v |-> lit.v]

\* json.dump(data, f); f.write("\n"): the members in insertion order, then
\* the newline.  A proper prefix of this sequence is a partial document.
JsonDoc(emg) ==
    << Member("ts", JsonFloat(emg.ts)), Member("aTA", JsonFloat(emg.aTA)),
       Member("aGAS", JsonFloat(emg.aGAS)), Member("valid", JsonBool(emg.valid)),
       Member("\n", Cell("")) >>

\* ------------------------------------------------------------------------
\* State
\* ------------------------------------------------------------------------

VARIABLES
    \* the output directory, which outlives the process
    csv_exists,     \* emg_log.csv exists
    csv_disk,       \* its lines as the storage layer holds them
    files,          \* path -> [exists, data] for emg_latest.json and its .tmp
    \* the environment
    clock,          \* packets delivered so far; time.time() at the receive
    runs,           \* process runs started
    faults,         \* I/O failures raised so far
    status_due,     \* status_every has elapsed since last_status_print
    \* the process
    pc,             \* position in main()
    new_file,       \* new_file
    max_packet,     \* args.max_packet, by what recvfrom does with it
    csv_file,       \* "none", "open" or "closed"
    csv_buf,        \* lines written to csv_file and not yet flushed
    sock,           \* "none", "open", "bound" or "closed"
    raw,            \* the datagram recvfrom returned, until parse_packet has read it
    recv_ts,        \* recv_ts
    emg,            \* emg
    ok,             \* ok
    bad,            \* bad
    last_sample,    \* last_sample: [set, val], set = FALSE for None
    exc,            \* the exception in flight, "none" when there is none
    exit_status,    \* "none" while running, then "success" or "failure"
    \* history, not read by the program
    decoded,        \* this run: << recv_ts, sample >> of each packet that decoded
    acked,          \* this run: the rows whose flush has returned
    faulted,        \* this run: an I/O failure or an interrupt has occurred
    overdue         \* iterations that ended with the status line due and not printed

dir_vars == << csv_exists, csv_disk, files >>
env_vars == << clock, runs, faults, status_due >>
loop_vars == << raw, recv_ts, emg, ok, bad, last_sample >>
res_vars == << new_file, max_packet, csv_file, csv_buf, sock >>
hist_vars == << decoded, acked, faulted, overdue >>
vars == << csv_exists, csv_disk, files, clock, runs, faults, status_due, pc,
           new_file, max_packet, csv_file, csv_buf, sock, raw, recv_ts, emg, ok, bad,
           last_sample, exc, exit_status, decoded, acked, faulted, overdue >>

\* ------------------------------------------------------------------------
\* Files
\* ------------------------------------------------------------------------

\* latest_path, relative to outdir.
LatestPath == << "emg_latest.json" >>

\* A temporary name equal to the published name.
TmpPath_same(path) == path

\* tmp = path + ".tmp"
TmpPath(path) == path \o << ".tmp" >>

JsonPaths == {LatestPath, LatestPath \o << ".tmp" >>}

Absent == [exists |-> FALSE, data |-> << >>]
FileOf(data) == [exists |-> TRUE, data |-> data]

\* An open that keeps what the file holds (mode "a" or "r+").
OpenW_keep(fs, path) == IF fs[path].exists THEN fs ELSE [fs EXCEPT ![path] = FileOf(<< >>)]

\* open(path, "w"): create or truncate.
OpenW(fs, path) == [fs EXCEPT ![path] = FileOf(<< >>)]

\* The content of the file after the buffered text reaches it.
WriteAll(fs, path, data) == [fs EXCEPT ![path] = FileOf(data)]

\* A copy in place of the rename: src stays.
OsReplace_copy(fs, src, dst) == [fs EXCEPT ![dst] = fs[src]]

\* os.replace(src, dst): dst takes src's content in one step, src is gone.
\* Replacing a file by itself changes nothing.
OsReplace(fs, src, dst) ==
    IF src = dst THEN fs
    ELSE [fs EXCEPT ![dst] = fs[src], ![src] = Absent]

\* What a write of a document that does not complete leaves in the file:
\* any of its members but not the last, and a part of the next one or not
\* (the member "cut" stands for a member of which only a part was written).
Torn(doc) ==
    LET whole == {SubSeq(doc, 1, n) : n \in 0..(Len(doc) - 1)}
    IN  whole \cup {Append(p, Member("cut", Cell(""))) : p \in whole \ {SubSeq(doc, 1, Len(doc) - 1)}}

\* open(csv_path, "w") instead of "a".
OpenLog_truncate(lines) == << >>

\* open(csv_path, "a"): the content is kept, writes go to the end.
OpenLog(lines) == lines

\* new_file = not os.path.exists(csv_path)
NewFile(exists) == ~exists

\* A flush that leaves the text in the process buffer.
Flushed_lost(lines, buf) == lines

\* A line of which a write that failed has put only the beginning into the
\* file, and the rest of that line, which the file object still buffers.  The
\* cells of the line stay where they are, a sixth cell tells the piece.
HeadOf(line) == Append(line, Cell("head"))
TailOf(line) == Append(line, Cell("tail"))
LineOf(piece) == SubSeq(piece, 1, Len(Header))
IsHead(x) == Len(x) = Len(Header) + 1 /\ x[Len(x)] = Cell("head")
IsTail(x) == Len(x) = Len(Header) + 1 /\ x[Len(x)] = Cell("tail")

\* The file after text is written at its end.  The rest of a line completes
\* the beginning the file ends with; any other text goes on the same line as
\* a beginning the file ends with, which stays a cut line.
Joined(lines, text) ==
    IF /\ lines # << >> /\ text # << >>
       /\ IsTail(text[1]) /\ lines[Len(lines)] = HeadOf(LineOf(text[1]))
    THEN SubSeq(lines, 1, Len(lines) - 1) \o << LineOf(text[1]) >> \o Tail(text)
    ELSE lines \o text

\* The ways a write of the buffered text stops before its end: the text that
\* has reached the file, its last line whole or cut, and the text that stays
\* in the buffer.
Stops(buf) ==
    LET whole == { [wrote |-> SubSeq(buf, 1, n),
                    kept |-> SubSeq(buf, n + 1, Len(buf))] :
                   n \in 0..(Len(buf) - 1) }
        cut == { [wrote |-> Append(SubSeq(buf, 1, n), HeadOf(buf[n + 1])),
                  kept |-> << TailOf(buf[n + 1]) >> \o SubSeq(buf, n + 2, Len(buf))] :
                 n \in {m \in 0..(Len(buf) - 1) : ~IsTail(buf[m + 1])} }
    IN  whole \cup cut

\* The ways a write of the buffered text ends: early, or with all of it
\* in the file.
WriteEnds(buf) == Stops(buf) \cup {[wrote |-> buf, kept |-> << >>]}

\* What the storage holds after csv_file.flush() returns.
Flushed(lines, buf) == Joined(lines, buf)

\* The counter after a packet is rejected, when the increment is forgotten.
Rejected_nocount(n) == n

\* bad += 1
Rejected(n) == n + 1

\* A decode failure that ends the loop.
AfterReject_fatal == "fin_csv"

\* continue: back to recvfrom.
AfterReject == "recv"

\* socket.timeout is TimeoutError: the clause "except socket.timeout" catches
\* every TimeoutError raised inside the loop body, whatever raised it.
IOErrorKinds == {"OSError", "TimeoutError"}

\* except socket.timeout
CaughtAsTimeout(kind) == kind = "TimeoutError"

NoLast == [set |-> FALSE, val |-> NoSample]

\* --max_packet (line 106), by what recvfrom(args.max_packet) does with it:
\* a size it takes (0 and above, 4096 by default), a negative size
\* (ValueError), a size beyond the largest index (OverflowError), and a size
\* for which no buffer can be allocated (MemoryError).
MaxPacketArgs == {"size", "negative", "overflow", "unallocatable"}
NoRaw == PktBadUtf8

\* ------------------------------------------------------------------------
\* Init
\* ------------------------------------------------------------------------

Init ==
    /\ csv_exists = FALSE
    /\ csv_disk = << >>
    /\ files = [p \in JsonPaths |-> Absent]
    /\ clock = 0
    /\ runs = 0
    /\ faults = 0
    /\ status_due = FALSE
    /\ pc = "idle"
    /\ new_file = FALSE
    /\ max_packet = "size"
    /\ csv_file = "none"
    /\ csv_buf = << >>
    /\ sock = "none"
    /\ raw = NoRaw
    /\ recv_ts = 0
    /\ emg = NoSample
    /\ ok = 0
    /\ bad = 0
    /\ last_sample = NoLast
    /\ exc = "none"
    /\ exit_status = "none"
    /\ decoded = << >>
    /\ acked = << >>
    /\ faulted = FALSE
    /\ overdue = 0

\* ------------------------------------------------------------------------
\* Startup: main() up to the loop (lines 94-141), outside the try block
\* ------------------------------------------------------------------------

StartupPcs == {"args", "exists", "open", "header", "hflush", "socket", "bind", "setup"}
LoopPcs == {"recv", "stamp", "parse", "writerow", "flush", "pub_open", "pub_write",
            "pub_replace", "count", "last", "live", "status"}
ShutdownPcs == {"except", "fin_csv", "fin_sock"}
RunningPcs == StartupPcs \cup LoopPcs \cup ShutdownPcs

\* The process has ended: its variables are gone.  The state of the two
\* resources, the exception and the exit status stay visible.
ProcessGone ==
    /\ new_file' = FALSE
    /\ max_packet' = "size"
    /\ raw' = NoRaw
    /\ recv_ts' = 0
    /\ emg' = NoSample
    /\ ok' = 0
    /\ bad' = 0
    /\ last_sample' = NoLast
    /\ status_due' = FALSE
    /\ decoded' = << >>
    /\ faulted' = TRUE
    /\ overdue' = 0

\* The operator starts the process.
Start ==
    /\ pc \in {"idle", "exited", "crashed"}
    /\ runs < MaxRuns
    /\ runs' = runs + 1
    /\ pc' = "args"
    /\ new_file' = FALSE
    /\ max_packet' = "size"
    /\ csv_file' = "none"
    /\ csv_buf' = << >>
    /\ sock' = "none"
    /\ raw' = NoRaw
    /\ recv_ts' = 0
    /\ emg' = NoSample
    /\ ok' = 0
    /\ bad' = 0
    /\ last_sample' = NoLast
    /\ exc' = "none"
    /\ exit_status' = "none"
    /\ decoded' = << >>
    /\ acked' = << >>
    /\ faulted' = FALSE
    /\ overdue' = 0
    /\ status_due' = FALSE
    /\ UNCHANGED << dir_vars, clock, faults >>

\* lines 95-108: parse_args() returns the arguments, or it raises SystemExit:
\* with status 2 after the usage message of a command line it does not
\* accept, with status 0 after the help text of --help.
ParseArgs ==
    /\ pc = "args"
    /\ \/ /\ \E a \in MaxPacketArgs : max_packet' = a
          /\ pc' = "exists"
          /\ UNCHANGED << dir_vars, env_vars, new_file, csv_file, csv_buf, sock,
                          loop_vars, exc, exit_status, hist_vars >>
       \/ /\ exc' = "SystemExit"
          /\ \E status \in {"success", "failure"} : exit_status' = status
          /\ pc' = "exited"
          /\ ProcessGone
          /\ UNCHANGED << dir_vars, clock, runs, faults, csv_file, csv_buf, sock,
                          acked >>

\* lines 111-115: the output directory is there or is made, the two paths,
\* new_file.
CheckExists ==
    /\ pc = "exists"
    /\ new_file' = NewFile(csv_exists)
    /\ pc' = "open"
    /\ UNCHANGED << dir_vars, env_vars, max_packet, csv_file, csv_buf, sock,
                    loop_vars, exc, exit_status, hist_vars >>

\* line 116: open() returns and csv_file is assigned.
OpenLogFile ==
    /\ pc = "open"
    /\ csv_exists' = TRUE
    /\ csv_disk' = OpenLog(csv_disk)
    /\ csv_file' = "open"
    /\ pc' = IF new_file THEN "header" ELSE "socket"
    /\ UNCHANGED << files, env_vars, new_file, max_packet, csv_buf, sock, loop_vars, exc,
                    exit_status, hist_vars >>

\* Ctrl+C as open() returns (line 116): the file is there, the assignment to
\* csv_file is not made, and the process ends with no handler on the way.
OpenInterrupted ==
    /\ pc = "open"
    /\ csv_exists' = TRUE
    /\ csv_disk' = OpenLog(csv_disk)
    /\ exc' = "KeyboardInterrupt"
    /\ exit_status' = "failure"
    /\ pc' = "exited"
    /\ ProcessGone
    /\ UNCHANGED << files, clock, runs, faults, csv_file, csv_buf, sock, acked >>

\* line 122
WriteHeader ==
    /\ pc = "header"
    /\ csv_buf' = Append(csv_buf, Header)
    /\ pc' = "hflush"
    /\ UNCHANGED << dir_vars, env_vars, new_file, max_packet, csv_file, sock, loop_vars, exc,
                    exit_status, hist_vars >>

\* line 123
FlushHeader ==
    /\ pc = "hflush"
    /\ csv_disk' = Flushed(csv_disk, csv_buf)
    /\ csv_buf' = << >>
    /\ pc' = "socket"
    /\ UNCHANGED << csv_exists, files, env_vars, new_file, max_packet, csv_file, sock,
                    loop_vars, exc, exit_status, hist_vars >>

\* line 126
CreateSocket ==
    /\ pc = "socket"
    /\ sock' = "open"
    /\ pc' = "bind"
    /\ UNCHANGED << dir_vars, env_vars, new_file, max_packet, csv_file, csv_buf, loop_vars,
                    exc, exit_status, hist_vars >>

\* line 127
BindSocket ==
    /\ pc = "bind"
    /\ sock' = "bound"
    /\ pc' = "setup"
    /\ UNCHANGED << dir_vars, env_vars, new_file, max_packet, csv_file, csv_buf, loop_vars,
                    exc, exit_status, hist_vars >>

\* lines 128-143: settimeout, the banner is printed, the counters, then
\* "try:".
EnterLoop ==
    /\ pc = "setup"
    /\ ok' = 0
    /\ bad' = 0
    /\ last_sample' = NoLast
    /\ status_due' = FALSE
    /\ pc' = "recv"
    /\ UNCHANGED << dir_vars, clock, runs, faults, res_vars, raw, recv_ts, emg,
                    exc, exit_status, hist_vars >>

\* An exception that leaves main() with no handler and no finally clause on
\* its way: the process ends, nothing is closed.  What an open file object
\* still buffers is written, in whole or in part, or lost: by the flush that
\* raised the exception, or when the interpreter goes down.
Abort(e) ==
    /\ exc' = e
    /\ exit_status' = "failure"
    /\ pc' = "exited"
    /\ ProcessGone
    /\ csv_buf' = << >>
    /\ \E w \in WriteEnds(csv_buf) :
          /\ w.wrote # << >> => csv_file = "open"
          /\ csv_disk' = Joined(csv_disk, w.wrote)
    /\ UNCHANGED << csv_exists, files, clock, runs, csv_file, sock, acked >>

\* os.makedirs (line 111), open(), flush(), socket(), bind() or a print() of
\* the banner (lines 130-135) raises OSError before the try block.
StartupFails ==
    /\ pc \in {"exists", "open", "hflush", "socket", "bind", "setup"}
    /\ faults < MaxFaults
    /\ faults' = faults + 1
    /\ Abort("OSError")

\* Ctrl+C before the try block is entered.
StartupInterrupt ==
    /\ pc \in StartupPcs
    /\ UNCHANGED faults
    /\ Abort("KeyboardInterrupt")

\* ------------------------------------------------------------------------
\* The ingestion loop (lines 143-190)
\* ------------------------------------------------------------------------

\* line 146: a datagram arrives; time passes while recvfrom blocks.
Receive ==
    /\ pc = "recv"
    /\ max_packet = "size"
    /\ clock < MaxPackets
    /\ \E p \in Packets : raw' = p
    /\ clock' = clock + 1
    /\ \E elapsed \in BOOLEAN : status_due' = (status_due \/ elapsed)
    /\ pc' = "stamp"
    /\ UNCHANGED << dir_vars, runs, faults, res_vars, recv_ts, emg, ok, bad,
                    last_sample, exc, exit_status, hist_vars >>

\* line 147: recv_ts = time.time()
Stamp ==
    /\ pc = "stamp"
    /\ recv_ts' = clock
    /\ pc' = "parse"
    /\ UNCHANGED << dir_vars, env_vars, res_vars, raw, emg, ok, bad, last_sample,
                    exc, exit_status, hist_vars >>

\* Ctrl+C as recvfrom returns (line 146): the datagram is taken from the
\* socket, the assignment to raw is not made, and "except KeyboardInterrupt"
\* takes the exception.
ReceiveInterrupted ==
    /\ pc = "recv"
    /\ max_packet = "size"
    /\ clock < MaxPackets
    /\ clock' = clock + 1
    /\ \E elapsed \in BOOLEAN : status_due' = (status_due \/ elapsed)
    /\ pc' = "except"
    /\ faulted' = TRUE
    /\ UNCHANGED << dir_vars, runs, faults, res_vars, loop_vars, exc,
                    exit_status, decoded, acked, overdue >>

\* lines 146, 179-180: recvfrom raises socket.timeout after 1.0 s.
Timeout ==
    /\ pc = "recv"
    /\ max_packet = "size"
    /\ \E elapsed \in BOOLEAN : status_due' = (status_due \/ elapsed)
    /\ IF CaughtAsTimeout("TimeoutError")
       THEN pc' = "status" /\ exc' = exc
       ELSE pc' = "fin_csv" /\ exc' = "OSError"
    /\ UNCHANGED << dir_vars, clock, runs, faults, res_vars, loop_vars,
                    exit_status, hist_vars >>

\* line 150: parse_packet returns.
ParseOk ==
    /\ pc = "parse"
    /\ parse_packet(raw).ok
    /\ emg' = parse_packet(raw).val
    /\ decoded' = Append(decoded, << recv_ts, parse_packet(raw).val >>)
    /\ raw' = NoRaw
    /\ pc' = "writerow"
    /\ UNCHANGED << dir_vars, env_vars, res_vars, recv_ts, ok, bad,
                    last_sample, exc, exit_status, acked, faulted, overdue >>

\* lines 151-153: parse_packet raises.
ParseReject ==
    /\ pc = "parse"
    /\ ~parse_packet(raw).ok
    /\ bad' = Rejected(bad)
    /\ raw' = NoRaw
    /\ pc' = AfterReject
    /\ overdue' = IF status_due THEN overdue + 1 ELSE 0
    /\ UNCHANGED << dir_vars, env_vars, res_vars, recv_ts, emg, ok,
                    last_sample, exc, exit_status, decoded, acked, faulted >>

\* lines 156-159
WriteRow ==
    /\ pc = "writerow"
    /\ csv_buf' = Append(csv_buf, CsvRow(recv_ts, emg))
    /\ pc' = "flush"
    /\ UNCHANGED << dir_vars, env_vars, new_file, max_packet, csv_file, sock, loop_vars, exc,
                    exit_status, hist_vars >>

\* line 160
FlushRow ==
    /\ pc = "flush"
    /\ csv_disk' = Flushed(csv_disk, csv_buf)
    /\ csv_buf' = << >>
    /\ acked' = Append(acked, CsvRow(recv_ts, emg))
    /\ pc' = "pub_open"
    /\ UNCHANGED << csv_exists, files, env_vars, new_file, max_packet, csv_file, sock,
                    loop_vars, exc, exit_status, decoded, faulted, overdue >>

\* An exception raised inside "try:" of line 145.  A TimeoutError is caught by
\* "except socket.timeout: pass" (lines 179-180) and the iteration goes on to
\* the status block; any other leaves the loop through "finally".
RaiseInLoop(kind) ==
    /\ faults < MaxFaults
    /\ faults' = faults + 1
    /\ faulted' = TRUE
    /\ IF CaughtAsTimeout(kind)
       THEN pc' = "status" /\ exc' = exc
       ELSE pc' = "fin_csv" /\ exc' = kind

\* The exceptions of recvfrom (line 146) that are not its timeout: an error
\* of the socket, or what recvfrom raises, before it waits for a datagram,
\* on a size it does not take.
RecvErrorKinds == {"OSError", "ValueError", "OverflowError", "MemoryError"}

\* line 146 raises the error of the socket: no clause of the loop catches it,
\* the status block is skipped and the loop is left through "finally".
ReceiveFails ==
    /\ pc = "recv"
    /\ max_packet = "size"
    /\ RaiseInLoop("OSError")
    /\ UNCHANGED << dir_vars, clock, runs, status_due, res_vars, loop_vars,
                    exit_status, decoded, acked, overdue >>

\* line 146 with a size recvfrom does not take: the first call raises at
\* once, and the loop is left through "finally" in the same way.
ReceiveRefuses ==
    /\ pc = "recv"
    /\ max_packet # "size"
    /\ exc' = CASE max_packet = "negative" -> "ValueError"
               [] max_packet = "overflow" -> "OverflowError"
               [] OTHER -> "MemoryError"
    /\ exc' \in RecvErrorKinds
    /\ pc' = "fin_csv"
    /\ UNCHANGED << dir_vars, env_vars, res_vars, loop_vars, exit_status,
                    hist_vars >>

\* line 160 raises: flush() has written what the storage took, whole lines
\* and possibly the beginning of the next, and the rest stays in the file
\* object's buffer.
FlushRowFails ==
    /\ pc = "flush"
    /\ \E kind \in IOErrorKinds : RaiseInLoop(kind)
    /\ \E w \in Stops(csv_buf) :
          /\ csv_disk' = Joined(csv_disk, w.wrote)
          /\ csv_buf' = w.kept
    /\ UNCHANGED << csv_exists, files, clock, runs, status_due, new_file, max_packet, csv_file,
                    sock, loop_vars, exit_status, decoded, acked, overdue >>

\* line 84: open(tmp, "w")
PubOpen ==
    /\ pc = "pub_open"
    /\ files' = OpenW(files, TmpPath(LatestPath))
    /\ pc' = "pub_write"
    /\ UNCHANGED << csv_exists, csv_disk, env_vars, res_vars, loop_vars, exc,
                    exit_status, hist_vars >>

\* lines 85-86 and the end of the with block: the document is written to the
\* file object and reaches the temporary file when the file is closed.
PubWrite ==
    /\ pc = "pub_write"
    /\ files' = WriteAll(files, TmpPath(LatestPath), JsonDoc(emg))
    /\ pc' = "pub_replace"
    /\ UNCHANGED << csv_exists, csv_disk, env_vars, res_vars, loop_vars, exc,
                    exit_status, hist_vars >>

\* line 87
PubReplace ==
    /\ pc = "pub_replace"
    /\ files' = OsReplace(files, TmpPath(LatestPath), LatestPath)
    /\ pc' = "count"
    /\ UNCHANGED << csv_exists, csv_disk, env_vars, res_vars, loop_vars, exc,
                    exit_status, hist_vars >>

\* open(tmp, "w"), the write at close, the close, or os.replace raises.  A
\* failed write leaves a torn document in the temporary file, a failed close
\* the whole of it.
PublishFails ==
    /\ pc \in {"pub_open", "pub_write", "pub_replace"}
    /\ \E kind \in IOErrorKinds : RaiseInLoop(kind)
    /\ IF pc = "pub_write"
       THEN \E part \in Torn(JsonDoc(emg)) \cup {JsonDoc(emg)} :
               files' = WriteAll(files, TmpPath(LatestPath), part)
       ELSE files' = files
    /\ UNCHANGED << csv_exists, csv_disk, clock, runs, status_due, res_vars,
                    loop_vars, exit_status, decoded, acked, overdue >>

\* line 165
Count ==
    /\ pc = "count"
    /\ ok' = ok + 1
    /\ pc' = "last"
    /\ UNCHANGED << dir_vars, env_vars, res_vars, raw, recv_ts, emg, bad,
                    last_sample, exc, exit_status, hist_vars >>

\* line 166
SetLastSample ==
    /\ pc = "last"
    /\ last_sample' = [set |-> TRUE, val |-> emg]
    /\ pc' = "live"
    /\ UNCHANGED << dir_vars, env_vars, res_vars, raw, recv_ts, emg, ok, bad,
                    exc, exit_status, hist_vars >>

\* lines 169-177: the live line is printed when print_every has elapsed.
LivePrint ==
    /\ pc = "live"
    /\ pc' = "status"
    /\ UNCHANGED << dir_vars, env_vars, res_vars, loop_vars, exc, exit_status,
                    hist_vars >>

\* The print() of lines 173-177 raises, inside "try:" of line 145.
LivePrintFails ==
    /\ pc = "live"
    /\ \E kind \in IOErrorKinds : RaiseInLoop(kind)
    /\ UNCHANGED << dir_vars, clock, runs, status_due, res_vars, loop_vars,
                    exit_status, decoded, acked, overdue >>

\* The print() of line 187 or 189 raises.  The status block is outside
\* "try:" of line 145: whatever the exception, a TimeoutError too, the loop is
\* left through "finally".  last_status_print was set at line 185.
StatusFails ==
    /\ pc = "status"
    /\ status_due
    /\ faults < MaxFaults
    /\ faults' = faults + 1
    /\ faulted' = TRUE
    /\ \E kind \in IOErrorKinds : exc' = kind
    /\ status_due' = FALSE
    /\ pc' = "fin_csv"
    /\ UNCHANGED << dir_vars, clock, runs, res_vars, loop_vars, exit_status,
                    decoded, acked, overdue >>

\* lines 183-190: the status line is printed when status_every has elapsed.
Status ==
    /\ pc = "status"
    /\ status_due' = FALSE
    /\ overdue' = 0
    /\ pc' = "recv"
    /\ UNCHANGED << dir_vars, clock, runs, faults, res_vars, loop_vars, exc,
                    exit_status, decoded, acked, faulted >>

\* ------------------------------------------------------------------------
\* Shutdown (lines 192-197), interrupts and crashes
\* ------------------------------------------------------------------------

\* Ctrl+C inside the try block: "except KeyboardInterrupt" takes it.  Inside
\* the with block of atomic_write_json the file is closed on the way out, so
\* what json.dump had written so far reaches the temporary file.
Interrupt ==
    /\ pc \in LoopPcs
    /\ pc' = "except"
    /\ faulted' = TRUE
    /\ IF pc = "pub_write"
       THEN \E part \in Torn(JsonDoc(emg)) \cup {JsonDoc(emg)} :
               files' = WriteAll(files, TmpPath(LatestPath), part)
       ELSE files' = files
    /\ UNCHANGED << csv_exists, csv_disk, env_vars, res_vars, loop_vars, exc,
                    exit_status, decoded, acked, overdue >>

\* line 193: the message is printed.
ExceptHandler ==
    /\ pc = "except"
    /\ pc' = "fin_csv"
    /\ UNCHANGED << dir_vars, env_vars, res_vars, loop_vars, exc, exit_status,
                    hist_vars >>

\* The print() of line 193 raises: its exception is the one in flight from
\* here on, the finally clause runs, and the process ends with a traceback.
HandlerFails ==
    /\ pc = "except"
    /\ faults < MaxFaults
    /\ faults' = faults + 1
    /\ \E kind \in IOErrorKinds : exc' = kind
    /\ pc' = "fin_csv"
    /\ UNCHANGED << dir_vars, clock, runs, status_due, res_vars, loop_vars,
                    exit_status, hist_vars >>

\* A second Ctrl+C while the handler runs: the finally clause still runs, the
\* exception goes on after it.
HandlerInterrupt ==
    /\ pc = "except"
    /\ exc' = "KeyboardInterrupt"
    /\ pc' = "fin_csv"
    /\ UNCHANGED << dir_vars, env_vars, res_vars, loop_vars, exit_status,
                    hist_vars >>

\* line 196: close() flushes what is buffered, then closes.
CloseLog ==
    /\ pc = "fin_csv"
    /\ csv_disk' = Flushed(csv_disk, csv_buf)
    /\ csv_buf' = << >>
    /\ csv_file' = "closed"
    /\ pc' = "fin_sock"
    /\ UNCHANGED << csv_exists, files, env_vars, new_file, max_packet, sock, loop_vars, exc,
                    exit_status, hist_vars >>

\* line 196 raises: the file is closed all the same, the buffered text that
\* was not written is lost, and line 197 is not reached.
CloseLogFails ==
    /\ pc = "fin_csv"
    /\ faults < MaxFaults
    /\ faults' = faults + 1
    /\ \E w \in (IF csv_buf = << >> THEN WriteEnds(csv_buf) ELSE Stops(csv_buf)) :
          csv_disk' = Joined(csv_disk, w.wrote)
    /\ csv_buf' = << >>
    /\ csv_file' = "closed"
    /\ exc' = "OSError"
    /\ exit_status' = "failure"
    /\ ProcessGone
    /\ pc' = "exited"
    /\ UNCHANGED << csv_exists, files, clock, runs, sock, acked >>

\* line 197, then main() returns or the pending exception goes on, and the
\* interpreter writes out what stdout still buffers.
CloseSock ==
    /\ pc = "fin_sock"
    /\ sock' = "closed"
    /\ exit_status' = IF exc = "none" THEN "success" ELSE "failure"
    /\ pc' = "exited"
    /\ ProcessGone
    /\ UNCHANGED << dir_vars, clock, runs, faults, csv_file, csv_buf, exc, acked >>

\* Ctrl+C as sock.close() returns (line 197): the socket is closed and the
\* process ends with the interrupt.
CloseSockInterrupted ==
    /\ pc = "fin_sock"
    /\ sock' = "closed"
    /\ exc' = "KeyboardInterrupt"
    /\ exit_status' = "failure"
    /\ pc' = "exited"
    /\ ProcessGone
    /\ UNCHANGED << dir_vars, clock, runs, faults, csv_file, csv_buf, acked >>

\* line 197, then the interpreter cannot write out what stdout still buffers
\* (the lines printed to a pipe or a file): the exit status is 120, whether
\* main() has returned or not.
ExitUnflushed ==
    /\ pc = "fin_sock"
    /\ faults < MaxFaults
    /\ faults' = faults + 1
    /\ sock' = "closed"
    /\ exit_status' = "failure"
    /\ pc' = "exited"
    /\ ProcessGone
    /\ UNCHANGED << dir_vars, clock, runs, csv_file, csv_buf, exc, acked >>

\* Ctrl+C while the finally clause runs: the closes not yet made are skipped.
ShutdownInterrupt ==
    /\ pc \in {"fin_csv", "fin_sock"}
    /\ UNCHANGED faults
    /\ Abort("KeyboardInterrupt")

\* The process is killed (or the machine stops): the memory of the process is
\* gone, the files keep what had reached the storage.  A crash inside a write
\* to the storage leaves any beginning of that write.
Crash ==
    /\ pc \in RunningPcs
    /\ pc' = "crashed"
    /\ exit_status' = "killed"
    /\ IF pc \in {"hflush", "flush", "fin_csv"}
       THEN \E w \in WriteEnds(csv_buf) : csv_disk' = Joined(csv_disk, w.wrote)
       ELSE csv_disk' = csv_disk
    /\ IF pc = "pub_write"
       THEN \E part \in Torn(JsonDoc(emg)) \cup {JsonDoc(emg)} :
               files' = WriteAll(files, TmpPath(LatestPath), part)
       ELSE files' = files
    /\ csv_buf' = << >>
    /\ csv_file' = "none"
    /\ sock' = "none"
    /\ exc' = "none"
    /\ ProcessGone
    /\ UNCHANGED << csv_exists, clock, runs, faults, acked >>

\* ------------------------------------------------------------------------
\* Specification
\* ------------------------------------------------------------------------

\* The steps the process takes by itself when every I/O operation succeeds.
LoopStep ==
    \/ ParseArgs \/ CheckExists \/ OpenLogFile \/ WriteHeader \/ FlushHeader
    \/ CreateSocket \/ BindSocket \/ EnterLoop
    \/ Receive \/ Stamp \/ Timeout \/ ReceiveRefuses
    \/ ParseOk \/ ParseReject \/ WriteRow \/ FlushRow
    \/ PubOpen \/ PubWrite \/ PubReplace
    \/ Count \/ SetLastSample \/ LivePrint \/ Status
    \/ CloseLog \/ CloseSock

Next ==
    \/ Start
    \/ ParseArgs
    \/ CheckExists
    \/ OpenLogFile
    \/ OpenInterrupted
    \/ WriteHeader
    \/ FlushHeader
    \/ CreateSocket
    \/ BindSocket
    \/ EnterLoop
    \/ StartupFails
    \/ StartupInterrupt
    \/ Receive
    \/ Stamp
    \/ ReceiveFails
    \/ ReceiveRefuses
    \/ ReceiveInterrupted
    \/ Timeout
    \/ ParseOk
    \/ ParseReject
    \/ WriteRow
    \/ FlushRow
    \/ FlushRowFails
    \/ PubOpen
    \/ PubWrite
    \/ PubReplace
    \/ PublishFails
    \/ Count
    \/ SetLastSample
    \/ LivePrint
    \/ LivePrintFails
    \/ Status
    \/ StatusFails
    \/ Interrupt
    \/ ExceptHandler
    \/ HandlerFails
    \/ HandlerInterrupt
    \/ CloseLog
    \/ CloseLogFails
    \/ CloseSock
    \/ CloseSockInterrupted
    \/ ExitUnflushed
    \/ ShutdownInterrupt
    \/ Crash

Spec == Init /\ [][Next]_vars

\* A run in which no I/O operation fails and no interrupt or crash arrives:
\* the process ends only when parse_args() or recvfrom refuses an argument.
QuietNext ==
    \/ Start
    \/ ParseArgs
    \/ CheckExists
    \/ OpenLogFile
    \/ WriteHeader
    \/ FlushHeader
    \/ CreateSocket
    \/ BindSocket
    \/ EnterLoop
    \/ Receive
    \/ Stamp
    \/ ReceiveRefuses
    \/ Timeout
    \/ ParseOk
    \/ ParseReject
    \/ WriteRow
    \/ FlushRow
    \/ PubOpen
    \/ PubWrite
    \/ PubReplace
    \/ Count
    \/ SetLastSample
    \/ LivePrint
    \/ Status
    \/ CloseLog
    \/ CloseSock

\* The interpreter keeps executing the process: a step the program can take
\* is eventually taken.
QuietSpec == Init /\ [][QuietNext]_vars /\ WF_vars(LoopStep)

\* The receive-and-decode part of the loop (lines 146-153) on datagrams that
\* carry every kind of JSON value in every field.  The process has started
\* on an empty directory and waits in recvfrom.
CodecInit ==
    /\ csv_exists = TRUE
    /\ csv_disk = << Header >>
    /\ files = [p \in JsonPaths |-> Absent]
    /\ clock = 0
    /\ runs = 1
    /\ faults = 0
    /\ status_due = FALSE
    /\ pc = "recv"
    /\ new_file = TRUE
    /\ max_packet = "size"
    /\ csv_file = "open"
    /\ csv_buf = << >>
    /\ sock = "bound"
    /\ raw = NoRaw
    /\ recv_ts = 0
    /\ emg = NoSample
    /\ ok = 0
    /\ bad = 0
    /\ last_sample = NoLast
    /\ exc = "none"
    /\ exit_status = "none"
    /\ decoded = << >>
    /\ acked = << >>
    /\ faulted = FALSE
    /\ overdue = 0

\* line 146 with a datagram of CodecPackets.
CodecReceive ==
    /\ pc = "recv"
    /\ max_packet = "size"
    /\ clock < MaxPackets
    /\ \E p \in CodecPackets : raw' = p
    /\ clock' = clock + 1
    /\ \E elapsed \in BOOLEAN : status_due' = (status_due \/ elapsed)
    /\ pc' = "stamp"
    /\ UNCHANGED << dir_vars, runs, faults, res_vars, recv_ts, emg, ok, bad,
                    last_sample, exc, exit_status, hist_vars >>

CodecNext ==
    \/ CodecReceive
    \/ Stamp
    \/ ParseOk
    \/ ParseReject

CodecSpec == CodecInit /\ [][CodecNext]_vars

TypeOK ==
    /\ pc \in RunningPcs \cup {"idle", "exited", "crashed"}
    /\ csv_file \in {"none", "open", "closed"}
    /\ sock \in {"none", "open", "bound", "closed"}
    /\ exc \in {"none", "KeyboardInterrupt", "SystemExit"} \cup IOErrorKinds
                \cup RecvErrorKinds
    /\ exit_status \in {"none", "success", "failure", "killed"}
    /\ max_packet \in MaxPacketArgs
    /\ clock \in 0..MaxPackets /\ runs \in 0..MaxRuns /\ faults \in 0..MaxFaults
    /\ ok \in 0..MaxPackets /\ bad \in 0..MaxPackets /\ overdue \in 0..MaxPackets

\* ------------------------------------------------------------------------
\* How a reader of the two artifacts reads them back
\* ------------------------------------------------------------------------

\* float(text) of a CSV cell.
CellFloat(c) ==
    IF c.s = "num" THEN c.v
    ELSE IF c.s = "nan" THEN NaN
    ELSE IF c.s = "inf" THEN PosInf
    ELSE NegInf

RowSample(line) ==
    Sample(CellFloat(line[2]), CellFloat(line[3]), CellFloat(line[4]), line[5].s = "True")
RowRecvTs(line) == CellFloat(line[1])

\* json.loads of a member's literal.
LitFloat(m) ==
    IF m.s = "num" THEN m.v
    ELSE IF m.s = "NaN" THEN NaN
    ELSE IF m.s = "Infinity" THEN PosInf
    ELSE NegInf

\* A complete document: the four members in order, then the newline.
IsCompleteDoc(d) ==
    /\ Len(d) = 5
    /\ << d[1].key, d[2].key, d[3].key, d[4].key, d[5].key >>
          = << "ts", "aTA", "aGAS", "valid", "\n" >>
    /\ d[4].s \in {"true", "false"}

DocSample(d) == Sample(LitFloat(d[1]), LitFloat(d[2]), LitFloat(d[3]), d[4].s = "true")

Published == files[LatestPath]
TmpFile == files[LatestPath \o << ".tmp" >>]

\* ------------------------------------------------------------------------
\* C1
\* ------------------------------------------------------------------------

\* No failed write has left a cut line in the log.
NoCutLine == \A i \in 1..Len(csv_disk) : ~IsHead(csv_disk[i])

\* C1: when the loop is back at recvfrom after N packets decoded in this run,
\* no I/O failure or interrupt occurred and none has cut a line of the log
\* before, the last N lines of the log are
\* the rows of those packets in arrival order (receive time and sample of the
\* i-th packet in the i-th row), a log this run created holds the header and
\* exactly these N rows, and the published snapshot is the N-th sample.
C1_DurableOrder ==
    (pc = "recv" /\ ~faulted /\ NoCutLine) =>
        LET n == Len(decoded)
            base == Len(csv_disk) - n
        IN  /\ base >= 0
            /\ \A i \in 1..n :
                  /\ RowRecvTs(csv_disk[base + i]) = TimeFloat(decoded[i][1])
                  /\ RowSample(csv_disk[base + i]) = decoded[i][2]
            /\ new_file => (base = 1 /\ csv_disk[1] = Header)
            /\ n > 0 => /\ Published.exists
                        /\ IsCompleteDoc(Published.data)
                        /\ DocSample(Published.data) = decoded[n][2]

\* Two packets with different samples were accepted by a run that created
\* the log.
C1_Witness ==
    /\ pc = "recv" /\ ~faulted /\ new_file
    /\ Len(decoded) = 2
    /\ decoded[1][2] # decoded[2][2]

\* ------------------------------------------------------------------------
\* C2
\* ------------------------------------------------------------------------

\* C2: the step the loop takes on a packet that fails to decode (invalid
\* UTF-8, invalid JSON, not an object, a missing field, a value that cannot
\* be coerced) adds exactly one to bad and leaves ok, the log, its buffer, the
\* published snapshot, the temporary file and last_sample as they were.
C2_RejectOnlyCounts ==
    [][ (pc = "parse" /\ raw \in BadPackets /\ pc' \notin {"except", "crashed"}) =>
            /\ bad' = bad + 1
            /\ UNCHANGED << ok, csv_exists, csv_disk, csv_buf, files, last_sample >> ]_vars

\* A packet was rejected by a run that had accepted one.
C2_Witness == pc = "recv" /\ bad = 1 /\ ok = 1 /\ Published.exists

\* ------------------------------------------------------------------------
\* C3
\* ------------------------------------------------------------------------

CompleteDocs == {JsonDoc(parse_packet(p).val) : p \in GoodPackets}

\* C3: at every point of every run the published path is absent or holds the
\* complete document of one decoded sample, and its content changes only in
\* the os.replace step, from the previous complete document to the complete
\* document of the sample being published, which the temporary file held.
C3_AtomicPublish ==
    /\ [](Published = Absent \/ (Published.exists /\ Published.data \in CompleteDocs))
    /\ [][ Published' # Published =>
              /\ pc = "pub_replace" /\ pc' = "count"
              /\ TmpFile = FileOf(JsonDoc(emg))
              /\ Published' = FileOf(JsonDoc(emg)) ]_vars

\* A second, different sample is about to replace a published one.
C3_Witness ==
    /\ pc = "pub_replace"
    /\ Published.exists
    /\ Published.data # JsonDoc(emg)
    /\ TmpFile = FileOf(JsonDoc(emg))

\* ------------------------------------------------------------------------
\* C4
\* ------------------------------------------------------------------------

\* C4: whenever the flush of the row, the open or write of the temporary
\* file or the replace raises an I/O error, the loop is left through the
\* finally clause with the error in flight.
C4_IOErrorSurfaces ==
    [][ (pc \in {"flush", "pub_open", "pub_write", "pub_replace"} /\ faults' = faults + 1) =>
            (pc' = "fin_csv" /\ exc' = "OSError") ]_vars

\* ------------------------------------------------------------------------
\* C5
\* ------------------------------------------------------------------------

\* C5: when the process has exited after opening the log file and creating
\* the socket, both are closed.
C5_ShutdownUnconditional ==
    (pc = "exited" /\ csv_file # "none" /\ sock # "none") =>
        (csv_file = "closed" /\ sock = "closed")

\* The process exited with a failed bind: nothing was closed.
C5_Reached == pc = "exited" /\ csv_file = "open" /\ sock = "open"

\* ------------------------------------------------------------------------
\* C6
\* ------------------------------------------------------------------------

\* The row of the packet received at time t with sample s is in the log and
\* s is the published snapshot.
Persisted(t, s) ==
    /\ \E i \in 1..Len(csv_disk) :
          /\ Len(csv_disk[i]) = Len(Header) /\ csv_disk[i] # Header
          /\ RowRecvTs(csv_disk[i]) = TimeFloat(t)
          /\ RowSample(csv_disk[i]) = s
    /\ Published.exists /\ IsCompleteDoc(Published.data)
    /\ DocSample(Published.data) = s

\* C6: in a run without I/O failure, interrupt or crash, the step the loop
\* takes on a malformed packet leads back to recvfrom with the process
\* running; while a decoded packet is being persisted the loop holds that
\* packet's receive time and sample; and a well-formed packet received after
\* a malformed one leads to the state in which its row is in the log and its
\* sample is published.
C6_MalformedNeverFatal ==
    /\ [][ (pc = "parse" /\ raw \in BadPackets) =>
              (pc' = "recv" /\ exit_status' = "none" /\ exc' = "none") ]_vars
    /\ [](pc \in {"writerow", "flush", "pub_open", "pub_write", "pub_replace", "count"} =>
             (decoded # << >> /\ decoded[Len(decoded)] = << recv_ts, emg >>))
    /\ (pc = "parse" /\ bad > 0 /\ parse_packet(raw).ok)
          ~> (pc = "count" /\ Persisted(recv_ts, emg))

\* A well-formed packet that followed a malformed one has been appended and
\* published.
C6_Witness ==
    /\ pc = "count" /\ bad > 0
    /\ Persisted(recv_ts, emg)

\* ------------------------------------------------------------------------
\* C7
\* ------------------------------------------------------------------------

\* C7: in every state, a crashed process included, every row whose flush has
\* returned is in the log as the storage holds it; and whenever the loop is at
\* recvfrom every packet counted in ok has such a row.
C7_FlushPerRecord ==
    /\ \A i \in 1..Len(acked) : \E j \in 1..Len(csv_disk) : csv_disk[j] = acked[i]
    /\ pc = "recv" => ok <= Len(acked)

\* The process crashed while the second packet was in flight: the row of the
\* first is in the log.
C7_Witness ==
    /\ pc = "crashed"
    /\ Len(acked) = 1
    /\ clock = 2
    /\ \E j \in 1..Len(csv_disk) : csv_disk[j] = acked[1]

\* ------------------------------------------------------------------------
\* C8
\* ------------------------------------------------------------------------

\* C8: a log that holds anything begins with the header and holds it once.
C8_HeaderOnce ==
    csv_disk # << >> =>
        /\ csv_disk[1] = Header
        /\ \A i \in 2..Len(csv_disk) : csv_disk[i] # Header

\* ------------------------------------------------------------------------
\* C9
\* ------------------------------------------------------------------------

\* The text of the log old is a prefix of the text of the log new: the lines
\* of old are the first lines of new, the last of them possibly a cut line
\* that new holds whole.
TextPrefix(old, new) ==
    /\ Len(old) <= Len(new)
    /\ \A i \in 1..(Len(old) - 1) : new[i] = old[i]
    /\ old # << >> =>
          \/ new[Len(old)] = old[Len(old)]
          \/ old[Len(old)] = HeadOf(new[Len(old)])

\* C9: every step, of any run, leaves the log file in existence and its
\* content as a prefix of the new content.
C9_AppendOnly ==
    [][ /\ TextPrefix(csv_disk, csv_disk')
        /\ csv_exists => csv_exists' ]_vars

\* A second run has appended a row to the log the first run left.
C9_Witness ==
    /\ runs = 2
    /\ Len(acked) = 1
    /\ Len(csv_disk) = 3
    /\ csv_disk[3] = acked[1]

\* ------------------------------------------------------------------------
\* C10
\* ------------------------------------------------------------------------

CellInUnit(c) == c.s = "num" /\ InUnit(c.v)

\* The activation x decodes to y: in [0, 1], 0 if x < 0, 1 if x > 1.
ClampedTo(x, y) ==
    /\ InUnit(y)
    /\ FloatLt(x, Zero) => y = Zero
    /\ FloatLt(One, x) => y = One
    /\ InUnit(x) => y = x

\* C10: the packet being decoded, if it decodes, gives aTA and aGAS in
\* [0, 1], with 0 for a value below 0 and 1 for a value above 1; the sample
\* the loop holds after a decode, every row the loop has put into the log,
\* whole or cut by a failed write, and the published snapshot have both
\* activations in [0, 1].
C10_ClampTotal ==
    /\ (pc = "parse" /\ parse_packet(raw).ok) =>
          /\ ClampedTo(to_float(raw.fields["aTA"]).val, parse_packet(raw).val.aTA)
          /\ ClampedTo(to_float(raw.fields["aGAS"]).val, parse_packet(raw).val.aGAS)
    /\ pc \in {"writerow", "flush", "pub_open", "pub_write", "pub_replace", "count"} =>
          (InUnit(emg.aTA) /\ InUnit(emg.aGAS))
    /\ \A i \in 1..Len(csv_disk) :
          LineOf(csv_disk[i]) # Header =>
              (CellInUnit(csv_disk[i][3]) /\ CellInUnit(csv_disk[i][4]))
    /\ Published.exists =>
          (CellInUnit(Published.data[2]) /\ CellInUnit(Published.data[3]))

\* Samples decoded from activations below 0, above 1, infinite and NaN are all
\* in the log.
C10_Witness ==
    /\ \E i \in 1..Len(csv_disk) : RowSample(csv_disk[i]) = parse_packet(PktB).val
    /\ \E i \in 1..Len(csv_disk) : RowSample(csv_disk[i]) = parse_packet(PktC).val
    /\ Published.exists

\* ------------------------------------------------------------------------
\* C11: numeric fields
\* ------------------------------------------------------------------------

NumericFields == {"ts", "aTA", "aGAS"}

\* A JSON number, or a string that float() parses after trimming.
IsNumeric(v) == v.t \in {"int", "float"} \/ (v.t = "str" /\ StrToFloat(v.s).ok)

\* C11: a packet in which ts, aTA or aGAS holds a value that is neither a
\* number nor a string that parses as a number (a boolean, null, an array,
\* an object, a non-numeric string) fails to decode and is rejected: the
\* decode step counts it as bad and goes back to receive.
C11_NumericFieldsOnly ==
    [][ (pc = "parse" /\ raw.enc = "utf8" /\ raw.syntax = "json" /\ raw.top = "dict"
         /\ \E f \in NumericFields :
               f \in DOMAIN raw.fields /\ ~IsNumeric(raw.fields[f]))
        => (pc' = "recv" /\ bad' = bad + 1) ]_vars

\* ------------------------------------------------------------------------
\* C12: the validity field
\* ------------------------------------------------------------------------

\* The packet has the four fields and its three numeric fields decode.
NumbersDecode(r) ==
    /\ r.enc = "utf8" /\ r.syntax = "json" /\ r.top = "dict"
    /\ FieldNames \subseteq DOMAIN r.fields
    /\ \A f \in NumericFields : to_float(r.fields[f]).ok

Accepted(v) == pc' = "writerow" /\ emg'.valid = v /\ bad' = bad
Refused == pc' = "recv" /\ bad' = bad + 1

\* C12: the decode step turns the validity field into a bool this way: a
\* boolean is itself; a number is true exactly when it is not zero; a string
\* is true exactly when, trimmed and lower-cased, it is "1", "true", "yes" or
\* "y"; null, an array or an object makes the decode fail.
C12_ValidCoercion ==
    [][ (pc = "parse" /\ NumbersDecode(raw)) =>
            LET v == raw.fields["valid"]
            IN  CASE v.t = "bool" -> Accepted(v.b)
                  [] v.t = "int" -> Accepted(v.huge \/ v.i # 0)
                  [] v.t = "float" -> Accepted(v.f \notin {Zero, NegZero})
                  [] v.t = "str" ->
                        Accepted(\E w \in { << "1" >>, << "t", "r", "u", "e" >>,
                                             << "y", "e", "s" >>, << "y" >> } :
                                    LowersTo(StrStrip(v.s), w))
                  [] OTHER -> Refused ]_vars

\* A packet whose validity value reads as false has been decoded, after one
\* whose validity value could not be decoded.
C12_Witness ==
    pc = "writerow" /\ ~emg.valid /\ emg.aTA = Fin(42) /\ bad = 1

\* ------------------------------------------------------------------------
\* C13: the receive timeout
\* ------------------------------------------------------------------------

\* recvfrom ends with its timeout: the call was made with a size it takes,
\* no datagram is taken, and the step is neither an interrupt, nor the end of
\* the process, nor an error of the socket.
TimedOut ==
    /\ max_packet = "size"
    /\ clock' = clock
    /\ faults' = faults
    /\ pc' \notin {"except", "crashed"}

\* C13: when recvfrom times out, the iteration does nothing: it is not an
\* error, the counters, the log, the snapshot and last_sample stay as they
\* are, and after the status block the loop is back in recvfrom (unless the
\* operator interrupts or kills the process there).
C13_TimeoutNoOp ==
    [][ /\ (pc = "recv" /\ TimedOut) =>
            /\ pc' = "status"
            /\ UNCHANGED << ok, bad, csv_exists, csv_disk, csv_buf, files,
                            last_sample, exc, exit_status, faults, faulted >>
        /\ (pc = "status" /\ pc' \notin {"except", "crashed"}) =>
            /\ pc' = "recv"
            /\ UNCHANGED << ok, bad, csv_exists, csv_disk, csv_buf, files,
                            last_sample, exc, exit_status >> ]_vars

\* ------------------------------------------------------------------------
\* C14: the operator's interrupt
\* ------------------------------------------------------------------------

\* The shutdown that an interrupt taken inside the loop has started: the
\* handler, then the finally clause with no exception in flight.
Stopping ==
    pc = "except" \/ (pc \in {"fin_csv", "fin_sock"} /\ exc = "none")

\* A step of that shutdown, when the process is not killed, the operator
\* does not interrupt a second time and the storage takes what close()
\* writes: the process stays in the shutdown sequence with no exception,
\* receives and publishes nothing, and close() writes what was buffered.
ShutdownStays ==
    ( /\ Stopping
      /\ pc' # "crashed"
      /\ exc' # "KeyboardInterrupt"
      /\ pc = "fin_csv" => faults' = faults ) =>
        /\ pc' \in ShutdownPcs \cup {"exited"}
        /\ exc' = "none"
        /\ clock' = clock
        /\ files' = files
        /\ csv_disk' = (IF pc = "fin_csv" THEN Joined(csv_disk, csv_buf) ELSE csv_disk)

\* The step that ends it.
ShutdownEnds ==
    (Stopping /\ pc' = "exited" /\ exc' = "none") =>
        /\ exit_status' = "success"
        /\ csv_file' = "closed" /\ csv_buf' = << >>
        /\ sock' = "closed"

\* C14: once an interrupt has been taken inside the loop, at whatever point
\* of the iteration, no packet is received or processed any more (the loop
\* is not re-entered, the clock of deliveries stands still, nothing is
\* published), closing the log writes what was buffered, and the process
\* comes to its end with the log closed, the socket closed and a success
\* status.
C14_InterruptShutsDown ==
    [][ShutdownStays /\ ShutdownEnds]_vars

\* ------------------------------------------------------------------------
\* C15: the status line
\* ------------------------------------------------------------------------

\* C15: once status_every has elapsed since the last status line, the line
\* is printed by the end of the iteration in progress or of the next one,
\* however the iterations end: at no time have two iterations ended with the
\* line due and not printed.
C15_StatusWithinTwo == overdue < 2

\* ------------------------------------------------------------------------
\* C16: publishing the same sample again
\* ------------------------------------------------------------------------

\* The replace of a publish of the sample emg returns.
PublishReturns == pc = "pub_replace" /\ pc' = "count"

\* C16: whatever the published path and the temporary path held before, a
\* publish of s leaves the published path holding the document of s and no
\* temporary file; so a publish of s over the artifact of a publish of s
\* leaves that artifact as it was.
C16_PublishIdempotent ==
    [][ PublishReturns =>
            /\ Published' = FileOf(JsonDoc(emg))
            /\ ~TmpFile'.exists
            /\ (Published = FileOf(JsonDoc(emg)) => Published' = Published) ]_vars

\* The same sample has been published twice in a row by this run.
C16_Witness ==
    /\ pc = "count" /\ ok >= 1
    /\ last_sample.set /\ last_sample.val = emg
    /\ Published = FileOf(JsonDoc(emg)) /\ ~TmpFile.exists

\* ------------------------------------------------------------------------
\* C17: the counters
\* ------------------------------------------------------------------------

\* C17: between iterations, and in the state the loop is left in when the
\* append or the publish has failed, ok is the number of packets of this run
\* that decoded and the number of rows this run has appended to the log.
C17_CounterAccounting ==
    (pc \in {"recv", "status"} \/ (pc = "fin_csv" /\ exc = "OSError")) =>
        (ok = Len(decoded) /\ ok = Len(acked))

\* ------------------------------------------------------------------------
\* C18: the snapshot and the log
\* ------------------------------------------------------------------------

\* This run has completed a publish.
PublishedByRun == ok >= 1 \/ pc = "count"

\* C18: while the process runs, a snapshot this run has published is the
\* sample of the last row this run appended to the log, or of the row before
\* it, and it is the sample of the last row whenever the loop waits in
\* recvfrom.
C18_SnapshotNotAhead ==
    (pc \in LoopPcs \cup ShutdownPcs /\ PublishedByRun) =>
        LET n == Len(acked)
        IN  /\ Published.exists /\ IsCompleteDoc(Published.data)
            /\ n >= 1
            /\ \/ DocSample(Published.data) = RowSample(acked[n])
               \/ n >= 2 /\ DocSample(Published.data) = RowSample(acked[n - 1])
            /\ pc = "recv" => DocSample(Published.data) = RowSample(acked[n])

\* ------------------------------------------------------------------------
\* C19: a publish that does not complete
\* ------------------------------------------------------------------------

\* A publish is left before its replace has been made: an I/O error, an
\* interrupt or the end of the process.
PublishBroken ==
    /\ pc \in {"pub_open", "pub_write", "pub_replace"}
    /\ pc' \notin {"pub_write", "pub_replace", "count"}

\* C19: a publish that is broken off before the replace leaves the published
\* path as it was, absent or with the complete document published before;
\* a publish that goes through starts by emptying the temporary file,
\* whatever was left in it, writes the whole document there without touching
\* the published path, and ends with the published path holding the complete
\* document and the temporary file gone.
C19_BrokenPublishHarmless ==
    [][ /\ PublishBroken =>
              /\ Published' = Published
              /\ Published.exists => Published.data \in CompleteDocs
        /\ (pc = "pub_open" /\ pc' = "pub_write") =>
              (TmpFile' = FileOf(<< >>) /\ Published' = Published)
        /\ (pc = "pub_write" /\ pc' = "pub_replace") =>
              (TmpFile' = FileOf(JsonDoc(emg)) /\ Published' = Published)
        /\ PublishReturns =>
              /\ Published' = FileOf(JsonDoc(emg))
              /\ IsCompleteDoc(Published'.data)
              /\ ~TmpFile'.exists ]_vars

\* A publish has been broken off inside the write: the temporary file holds
\* a torn document and the published path the complete document of an
\* earlier sample.
C19_Witness ==
    /\ pc \in {"status", "fin_csv", "except"} /\ faulted
    /\ TmpFile.exists /\ Len(TmpFile.data) = 2
    /\ Published.exists /\ Published.data \in CompleteDocs
    /\ DocSample(Published.data) # emg

====
